---- MODULE Spec2Model ----
(***************************************************************************)
(* Model of packages/botjs/src/image-match.ts: the TypeScript wrappers     *)
(* around the native template search (findOnScreen, findAllOnScreen,       *)
(* findInRegion, findAllInRegion) and the pollers built on them (waitFor,  *)
(* waitForGone, sleep); of packages/bot-cli/src/commands (callCommand,     *)
(* invokeExport, validateArgs); and of executeScript.                      *)
(*                                                                         *)
(* Time is in whole milliseconds.  `wall` is what Date.now() returns (the  *)
(* system wall clock, which the operating system may set forward or back); *)
(* `real` is physical time, which drives the setTimeout timers.            *)
(***************************************************************************)
EXTENDS Integers, Sequences, FiniteSets

VARIABLES
    wall,        \* the value Date.now() returns at this moment
    real,        \* physical time elapsed since the model started
    adjusts,     \* number of wall-clock adjustments made so far
    pc,          \* position of the poller invocation
    fn,          \* which poller runs: "waitFor" or "waitForGone"
    timeout,     \* its timeout argument
    interval,    \* its interval argument
    startTime,   \* its local `startTime` (image-match.ts:454, 498)
    realStart,   \* physical time at which startTime was read
    match,       \* its local `match` (image-match.ts:457, 501)
    wake,        \* physical time at which the pending setTimeout fires
    searches,    \* findOnScreen calls issued by this invocation, counted up to MaxSearches
    lastNative,  \* outcome of the latest bot.findOnScreen of this invocation
    result,      \* how the invocation settled
    punctual,    \* whether every sleep of this invocation so far lasted at least interval
    lastCall,    \* the latest direct call of a find* wrapper that has settled
    calls,       \* the calls of the find* wrappers in flight, by caller
    search,      \* what the screen shows, or the latest search through the engine that settled
    pollers,     \* the invocations in flight when several callers overlap
    cli,         \* cachedSpec of validate.ts and the callCommand / invokeExport calls in flight
    proc,        \* process.stdout.write, process.stderr.write and the executeScript calls
    heap         \* the template and the configuration object each caller holds

pollerVars == <<pc, fn, timeout, interval, startTime, realStart, match, wake,
                searches, lastNative, result, punctual>>
clockVars == <<wall, real, adjusts>>
vars == <<wall, real, adjusts, pc, fn, timeout, interval, startTime, realStart,
          match, wake, searches, lastNative, result, punctual, lastCall, calls, search,
          pollers, cli, proc, heap>>

----------------------------------------------------------------------------
(* Bounds of the model *)

MaxClock == 2
MaxTimeout == 3
MaxInterval == 2
\* The count of searches is kept up to this number (it stands for "or more").
MaxSearches == MaxTimeout + 1
MaxAdjust == 1
WallEpoch == 2
MaxCoord == 1

Timeouts == (-1)..MaxTimeout
Intervals == 0..MaxInterval

\* By how much one adjustment moves the system clock.
ClockSteps == {-2, 1}

\* The largest backward step.
MaxBack == CHOOSE b \in {-d : d \in ClockSteps} : \A d \in ClockSteps : -d <= b

----------------------------------------------------------------------------
(* Values *)

NullV == [t |-> "null"]
UndefinedV == [t |-> "undefined"]
Unset == [t |-> "unset"]
BoolV(b) == [t |-> "bool", b |-> b]

\* Sample native matches (confidence and scale in hundredths).
MatchResultJs ==
    { [t |-> "match", x |-> 0, y |-> 0, width |-> 2, height |-> 2,
       confidence |-> 100, scale |-> 100],
      [t |-> "match", x |-> 1, y |-> 0, width |-> 1, height |-> 1,
       confidence |-> 85, scale |-> 50] }

Errors == {"CaptureError", "DecodeError"}

Ok(v) == [kind |-> "ok", val |-> v]
Throw(e) == [kind |-> "throw", err |-> e]
NoOutcome == [kind |-> "none"]

\* What one call of the native bot.findOnScreen / bot.findInRegion can do.
NativeFindOutcomes ==
    {Ok(v) : v \in MatchResultJs \cup {NullV, UndefinedV}}
        \cup {Throw(e) : e \in Errors}

\* What one call of the native bot.findAllOnScreen / bot.findAllInRegion can do.
MatchLists ==
    {<<>>} \cup {<<a>> : a \in MatchResultJs}
        \cup {<<a, b>> : a \in MatchResultJs, b \in MatchResultJs}

NativeFindAllOutcomes ==
    {Ok([t |-> "list", s |-> l]) : l \in MatchLists} \cup {Throw(e) : e \in Errors}

NumV(n) == [t |-> "num", n |-> n]

\* The MatchConfig arguments the callers of the model pass: none, a partial
\* one and a complete one.
MatchConfigs ==
    { UndefinedV,
      [t |-> "config", searchMultipleScales |-> UndefinedV,
       useGrayscale |-> UndefinedV, scaleSteps |-> UndefinedV,
       confidence |-> NumV(90), limit |-> UndefinedV],
      [t |-> "config", searchMultipleScales |-> BoolV(FALSE),
       useGrayscale |-> BoolV(TRUE), scaleSteps |-> [t |-> "list", s |-> <<100, 50>>],
       confidence |-> NumV(80), limit |-> NumV(1)] }

\* The commands of the bot CLI that may overlap.
CliIds == {"p", "q"}

\* No command of this caller is in flight or on record.
NoCommand == [pc |-> "idle"]

\* The functions process.stdout.write / process.stderr.write can be: the one
\* of the stream, a bound copy (`f.bind(stream)`), or the capturing closure
\* an executeScript call installed, which forwards to `to`.
StreamWrite(stream) == [t |-> "write", stream |-> stream]
Bound(f) == [t |-> "bound", of |-> f]
Hook(id, f) == [t |-> "hook", run |-> id, to |-> f]

ScriptIds == {"s", "t"}

NotExecuted ==
    [pc |-> "idle", originalStdoutWrite |-> NullV, originalStderrWrite |-> NullV,
     stdout |-> 0, stderr |-> 0, result |-> NoOutcome]

ProcessStart ==
    [stdoutWrite |-> StreamWrite("stdout"), stderrWrite |-> StreamWrite("stderr"),
     written |-> 0, runs |-> [id \in ScriptIds |-> NotExecuted]]

Coords == 0..MaxCoord
Sizes == 1..(MaxCoord + 1)

\* The callers whose calls of the find* wrappers may overlap.
Callers == {"a", "b"}

\* This caller has no call in flight.
NoCall == [pc |-> "idle"]

\* JavaScript truthiness of a value the native search can hand back.
Truthy(v) == v.t \notin {"null", "undefined", "unset"}

----------------------------------------------------------------------------
(* The wrappers *)

\* A mutant: confidence and scale change places.
fromMatchResultJsSwapped(r) ==
    [t |-> "match", x |-> r.x, y |-> r.y, width |-> r.width,
     height |-> r.height, confidence |-> r.scale, scale |-> r.confidence]

\* A mutant: x and y change places.
fromMatchResultJsTransposed(r) ==
    [t |-> "match", x |-> r.y, y |-> r.x, width |-> r.width,
     height |-> r.height, confidence |-> r.confidence, scale |-> r.scale]

\* A mutant: width and height change places.
fromMatchResultJsRotated(r) ==
    [t |-> "match", x |-> r.x, y |-> r.y, width |-> r.height,
     height |-> r.width, confidence |-> r.confidence, scale |-> r.scale]

fromMatchResultJs(r) ==
    [t |-> "match", x |-> r.x, y |-> r.y, width |-> r.width,
     height |-> r.height, confidence |-> r.confidence, scale |-> r.scale]

\* A mutant: the rejection of the native call is caught and reported as "no match".
findOnScreenSwallow(native) ==
    IF native.kind = "throw" THEN Ok(NullV)
    ELSE IF Truthy(native.val) THEN Ok(fromMatchResultJs(native.val))
    ELSE Ok(NullV)

\* `await bot.findOnScreen(...)` rethrows; `result ? fromMatchResultJs(result) : null`.
findOnScreen(native) ==
    IF native.kind = "throw" THEN native
    ELSE IF Truthy(native.val) THEN Ok(fromMatchResultJs(native.val))
    ELSE Ok(NullV)

\* A mutant: the rejection of the native call is caught and reported as "no match".
findInRegionSwallow(native) ==
    IF native.kind = "throw" THEN Ok(NullV)
    ELSE IF Truthy(native.val) THEN Ok(fromMatchResultJs(native.val))
    ELSE Ok(NullV)

\* `await bot.findInRegion(...)` rethrows; `result ? fromMatchResultJs(result) : null`.
findInRegion(native) ==
    IF native.kind = "throw" THEN native
    ELSE IF Truthy(native.val) THEN Ok(fromMatchResultJs(native.val))
    ELSE Ok(NullV)

\* A mutant: the mapped list comes out in reverse.
mapFromMatchResultJsReversed(results) ==
    [i \in 1..Len(results) |-> fromMatchResultJs(results[Len(results) + 1 - i])]

\* `results.map(fromMatchResultJs)`
mapFromMatchResultJs(results) ==
    [i \in 1..Len(results) |-> fromMatchResultJs(results[i])]

\* `await bot.findAllOnScreen(...)` rethrows; the list is mapped element by element.
findAllOnScreen(native) ==
    IF native.kind = "throw" THEN native
    ELSE Ok([t |-> "list", s |-> mapFromMatchResultJs(native.val.s)])

\* A mutant: the list comes back last element first.
findAllInRegionReversed(native) ==
    IF native.kind = "throw" THEN native
    ELSE Ok([t |-> "list",
             s |-> [i \in 1..Len(native.val.s) |->
                        fromMatchResultJs(native.val.s[Len(native.val.s) + 1 - i])]])

\* `await bot.findAllInRegion(...)` rethrows; the list is mapped element by element.
findAllInRegion(native) ==
    IF native.kind = "throw" THEN native
    ELSE Ok([t |-> "list", s |-> mapFromMatchResultJs(native.val.s)])

\* A mutant: the limit is not handed over.
toMatchConfigJsNoLimit(config) ==
    IF ~Truthy(config) THEN UndefinedV
    ELSE [t |-> "config",
          searchMultipleScales |-> config.searchMultipleScales,
          useGrayscale |-> config.useGrayscale,
          scaleSteps |-> config.scaleSteps,
          confidence |-> config.confidence,
          limit |-> UndefinedV]

\* A mutant: the confidence is not handed over.
toMatchConfigJsNoConfidence(config) ==
    IF ~Truthy(config) THEN UndefinedV
    ELSE [t |-> "config",
          searchMultipleScales |-> config.searchMultipleScales,
          useGrayscale |-> config.useGrayscale,
          scaleSteps |-> config.scaleSteps,
          confidence |-> UndefinedV,
          limit |-> config.limit]

\* A mutant: the scale steps are not handed over.
toMatchConfigJsNoSteps(config) ==
    IF ~Truthy(config) THEN UndefinedV
    ELSE [t |-> "config",
          searchMultipleScales |-> config.searchMultipleScales,
          useGrayscale |-> config.useGrayscale,
          scaleSteps |-> UndefinedV,
          confidence |-> config.confidence,
          limit |-> config.limit]

\* A mutant: searchMultipleScales is not handed over.
toMatchConfigJsNoMulti(config) ==
    IF ~Truthy(config) THEN UndefinedV
    ELSE [t |-> "config",
          searchMultipleScales |-> UndefinedV,
          useGrayscale |-> config.useGrayscale,
          scaleSteps |-> config.scaleSteps,
          confidence |-> config.confidence,
          limit |-> config.limit]

\* `if (!config) return undefined;` else a fresh object with the five fields copied.
toMatchConfigJs(config) ==
    IF ~Truthy(config) THEN UndefinedV
    ELSE [t |-> "config",
          searchMultipleScales |-> config.searchMultipleScales,
          useGrayscale |-> config.useGrayscale,
          scaleSteps |-> config.scaleSteps,
          confidence |-> config.confidence,
          limit |-> config.limit]

----------------------------------------------------------------------------
(* The pollers *)

Active == {"check", "search", "branch", "sleep"}

\* A mutant: the loop is still entered when the elapsed time equals the timeout.
deadlineOpenInclusive(now, start, limit) == now - start <= limit

\* A mutant: the start time is not subtracted.
deadlineOpenNoStart(now, start, limit) == now < limit

\* A mutant: the deadline never closes.
deadlineOpenAlways(now, start, limit) == TRUE

\* The loop condition `Date.now() - startTime < timeout`.
deadlineOpen(now, start, limit) == now - start < limit

\* A mutant: a match found after the deadline does not end the loop.
waitForReturnsBeforeDeadline(m) == Truthy(m) /\ wall - startTime < timeout

\* A mutant: a match does not end the loop.
waitForReturnsNever(m) == FALSE

\* `if (match) return match;`
waitForReturns(m) == Truthy(m)

\* A mutant: the test of waitFor is used.
waitForGoneReturnsInverted(m) == Truthy(m)

\* `if (!match) return true;`
waitForGoneReturns(m) == ~Truthy(m)

\* A mutant: the pause lasts two intervals.
sleepTwice(now, ms) == now + 2 * ms

\* A mutant: the timer fires at once.
sleepNoWait(now, ms) == now

\* `setTimeout(resolve, ms)`: the earliest physical time, in whole
\* milliseconds, at which the timer fires.  Node runs a delay below 1 as 1
\* and measures the delay from the event loop's cached time, which can lag
\* by up to a millisecond: a timer of ms fires up to one millisecond early,
\* and at any time later.
sleep(now, ms) == IF ms >= 1 THEN now + ms - 1 ELSE now

\* The search count after one more findOnScreen call.
countSearch(n) == IF n < MaxSearches THEN n + 1 ELSE MaxSearches

\* The value returned after the loop: `return null` / `return false`.
timedOutValue(f) == IF f = "waitFor" THEN NullV ELSE BoolV(FALSE)

\* The value returned from inside the loop: `return match` / `return true`.
foundValue(f, m) == IF f = "waitFor" THEN m ELSE BoolV(TRUE)

loopReturns(f, m) ==
    IF f = "waitFor" THEN waitForReturns(m) ELSE waitForGoneReturns(m)

\* The callers of waitFor and waitForGone.
Ids == {"a", "b"}

\* A caller that has not called waitFor or waitForGone.  iterations counts
\* the searches up to two; firstWith and searchedWith are what the first and
\* the latest search handed to the native function; given is the template and
\* the configuration as they were when the call was made.
NotCalled ==
    [pc |-> "idle", fn |-> "waitFor", timeout |-> 0, interval |-> 0,
     given |-> <<>>, startTime |-> 0, match |-> Unset, wake |-> 0,
     iterations |-> 0, firstWith |-> <<>>, searchedWith |-> <<>>,
     result |-> NoOutcome]

\* A caller that holds no argument objects yet.
NoObjects == [template |-> NullV, config |-> UndefinedV]

Init ==
    /\ wall = WallEpoch
    /\ real = 0
    /\ adjusts = 0
    /\ pc = "idle"
    /\ fn = "waitFor"
    /\ timeout = 0
    /\ interval = 0
    /\ startTime = 0
    /\ realStart = 0
    /\ match = Unset
    /\ wake = 0
    /\ searches = 0
    /\ lastNative = NoOutcome
    /\ result = NoOutcome
    /\ punctual = TRUE
    /\ lastCall = [op |-> "none"]
    /\ calls = [id \in Callers |-> NoCall]
    /\ search = [op |-> "none"]
    /\ pollers = [id \in Ids |-> NotCalled]
    /\ cli = [cachedSpec |-> FALSE, cmds |-> [id \in CliIds |-> NoCommand]]
    /\ proc = ProcessStart
    /\ heap = [id \in Callers |-> NoObjects]

\* waitFor(template, t, i, config) / waitForGone(...) is called: `const startTime = Date.now()`.
Call(f, t, i) ==
    /\ pc \in {"idle", "done"}
    /\ real < MaxClock
    /\ pc' = "check"
    /\ fn' = f
    /\ timeout' = t
    /\ interval' = i
    /\ startTime' = wall
    /\ realStart' = real
    /\ match' = Unset
    /\ wake' = 0
    /\ searches' = 0
    /\ lastNative' = NoOutcome
    /\ result' = NoOutcome
    /\ punctual' = TRUE
    /\ UNCHANGED <<clockVars, lastCall, calls, search, pollers, cli, proc, heap>>

\* The loop condition is evaluated: enter the body (findOnScreen is called) or
\* fall out of the loop and return null / false.
CheckDeadline ==
    /\ pc = "check"
    /\ IF deadlineOpen(wall, startTime, timeout)
       THEN /\ pc' = "search"
            /\ searches' = countSearch(searches)
            /\ UNCHANGED result
       ELSE /\ pc' = "done"
            /\ result' = Ok(timedOutValue(fn))
            /\ UNCHANGED searches
    /\ UNCHANGED <<clockVars, fn, timeout, interval, startTime, realStart,
                   match, wake, lastNative, punctual, lastCall, calls, search, pollers,
                   cli, proc, heap>>

\* `const match = await findOnScreen(template, config)` settles.
SearchReturn(native) ==
    /\ pc = "search"
    /\ lastNative' = native
    /\ LET out == findOnScreen(native) IN
       IF out.kind = "throw"
       THEN /\ pc' = "done"
            /\ result' = out
            /\ UNCHANGED match
       ELSE /\ pc' = "branch"
            /\ match' = out.val
            /\ UNCHANGED result
    /\ UNCHANGED <<clockVars, fn, timeout, interval, startTime, realStart,
                   wake, searches, punctual, lastCall, calls, search, pollers, cli, proc, heap>>

\* The test on `match`: return, or `await sleep(interval)`.
Branch ==
    /\ pc = "branch"
    /\ IF loopReturns(fn, match)
       THEN /\ pc' = "done"
            /\ result' = Ok(foundValue(fn, match))
            /\ UNCHANGED wake
       ELSE /\ pc' = "sleep"
            /\ wake' = sleep(real, interval)
            /\ UNCHANGED result
    /\ UNCHANGED <<clockVars, fn, timeout, interval, startTime, realStart,
                   match, searches, lastNative, punctual, lastCall, calls, search, pollers,
                   cli, proc, heap>>

\* The time the sleep has lasted so far.
slept == real - (wake - sleep(0, interval))

\* The timer of sleep() fires, early or not, and the loop condition is next.
SleepDone ==
    /\ pc = "sleep"
    /\ real >= wake
    /\ pc' = "check"
    /\ punctual' = (punctual /\ slept >= interval)
    /\ UNCHANGED <<clockVars, fn, timeout, interval, startTime, realStart,
                   match, wake, searches, lastNative, result, lastCall, calls, search,
                   pollers, cli, proc, heap>>

\* The time by which every invocation has met its deadline and slept for
\* the last time.
Horizon == MaxClock + MaxTimeout + MaxAdjust * MaxBack + MaxInterval

\* One millisecond passes.  Time is followed while an invocation can still
\* need it: until wall-clock adjustments can no longer keep its deadline open,
\* and until a pending timer has fired, early or on time.
Tick ==
    /\ \/ real < MaxClock
       \/ pc \in Active /\ real - realStart < MaxTimeout + MaxAdjust * MaxBack
       \/ pc = "sleep" /\ slept < interval /\ real < Horizon
    /\ real' = real + 1
    /\ wall' = wall + 1
    /\ UNCHANGED <<adjusts, pollerVars, lastCall, calls, search, pollers, cli, proc, heap>>

\* The system clock is set back or forward by d milliseconds.
WallAdjust(d) ==
    /\ adjusts < MaxAdjust
    /\ wall + d >= 0
    /\ wall' = wall + d
    /\ adjusts' = adjusts + 1
    /\ UNCHANGED <<real, pollerVars, lastCall, calls, search, pollers, cli, proc, heap>>

PollerStep ==
    \/ CheckDeadline
    \/ \E n \in NativeFindOutcomes : SearchReturn(n)
    \/ Branch
    \/ SleepDone

CallStep == \E f \in {"waitFor", "waitForGone"}, t \in Timeouts, i \in Intervals : Call(f, t, i)

AdjustStep == \E d \in ClockSteps : WallAdjust(d)

----------------------------------------------------------------------------
(* Direct calls of the find* wrappers.  Each wrapper is an async function:  *)
(* it calls the native function, returns a pending promise at its `await`   *)
(* and goes on in a later turn of the event loop, once the native promise   *)
(* has settled.                                                             *)

\* A mutant: the region is handed over transposed.
regionArgsTransposed(x, y, width, height) == <<y, x, height, width>>

\* The region arguments handed to the native function, in its order.
regionArgs(x, y, width, height) == <<x, y, width, height>>

\* A wrapper up to its `await`: toMatchConfigJs(config) is evaluated, the
\* native function is called with these arguments and the wrapper returns a
\* pending promise to its caller.
pendingCall(op, region, config, nativeRegion) ==
    [pc |-> "pending", op |-> op, region |-> region, config |-> config,
     nativeRegion |-> nativeRegion, nativeConfig |-> toMatchConfigJs(config)]

\* findOnScreen(template, config) is called by caller id.
FindOnScreenCall(id, config) ==
    /\ calls[id].pc = "idle"
    /\ calls' = [calls EXCEPT ![id] = pendingCall("findOnScreen", <<>>, config, <<>>)]
    /\ UNCHANGED <<clockVars, pollerVars, lastCall, search, pollers, cli, proc, heap>>

\* findAllOnScreen(template, config) is called by caller id.
FindAllOnScreenCall(id, config) ==
    /\ calls[id].pc = "idle"
    /\ calls' = [calls EXCEPT ![id] = pendingCall("findAllOnScreen", <<>>, config, <<>>)]
    /\ UNCHANGED <<clockVars, pollerVars, lastCall, search, pollers, cli, proc, heap>>

\* findInRegion(template, x, y, width, height, config) is called by caller id.
FindInRegionCall(id, x, y, width, height, config) ==
    /\ calls[id].pc = "idle"
    /\ calls' = [calls EXCEPT ![id] =
                    pendingCall("findInRegion", <<x, y, width, height>>, config,
                                regionArgs(x, y, width, height))]
    /\ UNCHANGED <<clockVars, pollerVars, lastCall, search, pollers, cli, proc, heap>>

\* findAllInRegion(template, x, y, width, height, config) is called by caller id.
FindAllInRegionCall(id, x, y, width, height, config) ==
    /\ calls[id].pc = "idle"
    /\ calls' = [calls EXCEPT ![id] =
                    pendingCall("findAllInRegion", <<x, y, width, height>>, config,
                                regionArgs(x, y, width, height))]
    /\ UNCHANGED <<clockVars, pollerVars, lastCall, search, pollers, cli, proc, heap>>

\* The native promise of caller id's call settles as `native` and the wrapper
\* goes on after its `await`: it rethrows, or maps the result and returns it.
\* The call is no longer in flight; what it did is kept in lastCall.
FindSettle(id, native) ==
    /\ calls[id].pc = "pending"
    /\ LET c == calls[id]
           single == c.op \in {"findOnScreen", "findInRegion"}
           out == CASE c.op = "findOnScreen" -> findOnScreen(native)
                    [] c.op = "findAllOnScreen" -> findAllOnScreen(native)
                    [] c.op = "findInRegion" -> findInRegion(native)
                    [] c.op = "findAllInRegion" -> findAllInRegion(native)
       IN /\ native \in (IF single THEN NativeFindOutcomes ELSE NativeFindAllOutcomes)
          /\ lastCall' = [op |-> c.op, region |-> c.region, config |-> c.config,
                          nativeRegion |-> c.nativeRegion,
                          nativeConfig |-> c.nativeConfig,
                          native |-> native, out |-> out]
    /\ calls' = [calls EXCEPT ![id] = NoCall]
    /\ UNCHANGED <<clockVars, pollerVars, search, pollers, cli, proc, heap>>

\* The caller is done with the result on record.
FindForget ==
    /\ lastCall.op # "none"
    /\ lastCall' = [op |-> "none"]
    /\ UNCHANGED <<clockVars, pollerVars, calls, search, pollers, cli, proc, heap>>

\* Caller a passes any configuration and region of the model; caller b, whose
\* calls overlap those of a, the partial configuration and one region.
CallerConfigs(id) ==
    IF id = "a" THEN MatchConfigs
    ELSE {c \in MatchConfigs : Truthy(c) /\ ~Truthy(c.limit)}

CallerRegions(id) ==
    IF id = "a" THEN Coords \X Coords \X Sizes \X Sizes
    ELSE {<<0, MaxCoord, MaxCoord + 1, 1>>}

\* A call is made once the caller has taken the last result on record; calls
\* in flight settle in any order.
FindStep ==
    \/ /\ lastCall.op = "none"
       /\ \E id \in Callers :
            /\ calls[id].pc = "idle"
            /\ \E c \in CallerConfigs(id) : FindOnScreenCall(id, c)
    \/ /\ lastCall.op = "none"
       /\ \E id \in Callers :
            /\ calls[id].pc = "idle"
            /\ \E c \in CallerConfigs(id) : FindAllOnScreenCall(id, c)
    \/ /\ lastCall.op = "none"
       /\ \E id \in Callers :
            /\ calls[id].pc = "idle"
            /\ \E r \in CallerRegions(id), c \in CallerConfigs(id) :
                    FindInRegionCall(id, r[1], r[2], r[3], r[4], c)
    \/ /\ lastCall.op = "none"
       /\ \E id \in Callers :
            /\ calls[id].pc = "idle"
            /\ \E r \in CallerRegions(id), c \in CallerConfigs(id) :
                    FindAllInRegionCall(id, r[1], r[2], r[3], r[4], c)
    \/ \E id \in Callers :
            /\ calls[id].pc = "pending"
            /\ \E n \in NativeFindOutcomes \cup NativeFindAllOutcomes : FindSettle(id, n)
    \/ FindForget

----------------------------------------------------------------------------
(* The helpers on a MatchResult *)

\* Math.round of a number given in halves: the nearest integer, a half
\* going up (towards plus infinity).
MathRound(halves) == (halves + 1) \div 2

\* getMatchCenter(match)
getMatchCenter(m) ==
    [x |-> MathRound(2 * m.x + m.width),
     y |-> MathRound(2 * m.y + m.height)]

\* getMatchBounds(match)
getMatchBounds(m) ==
    [left |-> m.x, top |-> m.y, right |-> m.x + m.width, bottom |-> m.y + m.height]

\* The MatchResults handed to the helpers: integer positions, also left of
\* and above the primary screen, and sizes from one pixel on.
HelperMatches ==
    [t : {"match"}, x : (-1)..MaxCoord, y : (-1)..MaxCoord,
     width : 1..(MaxCoord + 2), height : 1..(MaxCoord + 2),
     confidence : {100}, scale : {100}]

GetMatchCenterCall(m) ==
    /\ lastCall' = [op |-> "getMatchCenter", match |-> m, out |-> getMatchCenter(m)]
    /\ UNCHANGED <<clockVars, pollerVars, calls, search, pollers, cli, proc, heap>>

GetMatchBoundsCall(m) ==
    /\ lastCall' = [op |-> "getMatchBounds", match |-> m, out |-> getMatchBounds(m)]
    /\ UNCHANGED <<clockVars, pollerVars, calls, search, pollers, cli, proc, heap>>

GetMatchCenterStep == \E m \in HelperMatches : GetMatchCenterCall(m)

GetMatchBoundsStep == \E m \in HelperMatches : GetMatchBoundsCall(m)

----------------------------------------------------------------------------
(* The native search engine of @tego/bot, which the wrappers call.  Its     *)
(* code is not among the sources; it is modelled after sections 3 to 7 of   *)
(* the specification.  Pixels are 0 or 1; confidences and scales are in     *)
(* hundredths.                                                              *)

DefaultConfidence == 80
DefaultLimit == 100
DefaultScaleSteps == <<100, 90, 80, 70, 60, 50>>

\* The screen of the model is three pixels wide and two high.
ScreenSize == <<3, 2>>
ScreenW == ScreenSize[1]
ScreenH == ScreenSize[2]

Positions == (0..(ScreenW - 1)) \X (0..(ScreenH - 1))

\* A screen is the set of its lit pixels: none, one, or the corner and another.
Screens ==
    {{}} \cup {{p} : p \in Positions} \cup {{<<0, 0>>, p} : p \in Positions}

Pixel(screen, x, y) == IF <<x, y>> \in screen THEN 1 ELSE 0

\* capture(region) -> {width, height, pixelBytes}
capture(screen, x, y, w, h) ==
    [w |-> w, h |-> h,
     px |-> [p \in (0..(w - 1)) \X (0..(h - 1)) |-> Pixel(screen, x + p[1], y + p[2])]]

Max2(a, b) == IF a >= b THEN a ELSE b
Min2(a, b) == IF a <= b THEN a ELSE b
Abs(a) == IF a >= 0 THEN a ELSE -a

\* Section 4.2: every absent field takes its default.
resolveConfig(cfg) ==
    LET field(name, default) ==
            IF ~Truthy(cfg) THEN default
            ELSE IF ~Truthy(cfg[name]) THEN default
            ELSE cfg[name]
    IN [searchMultipleScales |-> field("searchMultipleScales", BoolV(TRUE)).b,
        useGrayscale |-> field("useGrayscale", BoolV(FALSE)).b,
        scaleSteps |-> field("scaleSteps", [t |-> "list", s |-> DefaultScaleSteps]).s,
        confidence |-> field("confidence", NumV(DefaultConfidence)).n,
        limit |-> field("limit", NumV(DefaultLimit)).n]

\* Section 4.2: what makes a resolved configuration fail with ValidationError.
validConfig(c) ==
    /\ c.confidence >= 0 /\ c.confidence <= 100
    /\ c.limit > 0
    /\ c.searchMultipleScales
        => /\ Len(c.scaleSteps) > 0
           /\ \A i \in 1..Len(c.scaleSteps) : c.scaleSteps[i] > 0

\* Section 4.6: a region has to lie within the screen.
validRegion(x, y, w, h) ==
    /\ x >= 0 /\ y >= 0 /\ w > 0 /\ h > 0
    /\ x + w <= ScreenW /\ y + h <= ScreenH

\* Section 4.3: the scales to search.
scaleSpace(c) == IF c.searchMultipleScales THEN c.scaleSteps ELSE <<100>>

\* Section 4.3: round to the nearest integer, at least 1.
scaledDim(d, scale) == Max2(1, (d * scale + 50) \div 100)

\* Section 4.3: the variants of the template that are searched: the single
\* scale 1.0, or one per scale step whose variant fits into the haystack.
searchedScales(tpl, hayW, hayH, c) ==
    LET scales == scaleSpace(c)
        all == [i \in 1..Len(scales) |->
                   [scale |-> scales[i],
                    width |-> IF c.searchMultipleScales
                              THEN scaledDim(tpl.w, scales[i]) ELSE tpl.w,
                    height |-> IF c.searchMultipleScales
                               THEN scaledDim(tpl.h, scales[i]) ELSE tpl.h]]
        fits(v) == v.width <= hayW /\ v.height <= hayH
    IN IF c.searchMultipleScales THEN SelectSeq(all, fits) ELSE all

\* The template resized to w by h (nearest-neighbour sampling).
resize(tpl, w, h) ==
    [w |-> w, h |-> h,
     px |-> [p \in (0..(w - 1)) \X (0..(h - 1)) |->
                tpl.px[<<(p[1] * tpl.w) \div w, (p[2] * tpl.h) \div h>>]]]

\* Section 4.4: the share of equal pixels, 100 for a pixel-identical placement.
score(hay, tpl, x, y) ==
    LET same == {p \in DOMAIN tpl.px : hay.px[<<x + p[1], y + p[2]>>] = tpl.px[p]}
    IN (100 * Cardinality(same)) \div (tpl.w * tpl.h)

\* The placements of a w by h template in the haystack, in scan order; the
\* order in which equally good placements are reported is left open by the
\* specification, so the scan runs forward or backward (tie).
placements(hay, w, h, tie) ==
    LET nx == hay.w - w + 1
        ny == hay.h - h + 1
        n == IF nx > 0 /\ ny > 0 THEN nx * ny ELSE 0
        at(i) == LET k == IF tie = "first" THEN i - 1 ELSE n - i
                 IN <<k % nx, k \div nx>>
    IN [i \in 1..n |-> at(i)]

area(m) == m.width * m.height

\* Section 4.5: two boxes overlap beyond the threshold (half of the smaller box).
overlaps(a, b) ==
    LET ix == Min2(a.x + a.width, b.x + b.width) - Max2(a.x, b.x)
        iy == Min2(a.y + a.height, b.y + b.height) - Max2(a.y, b.y)
    IN ix > 0 /\ iy > 0 /\ 2 * ix * iy > Min2(area(a), area(b))

\* Section 4.5: a ranks strictly before b.
ranksBefore(a, b) ==
    \/ a.confidence > b.confidence
    \/ a.confidence = b.confidence /\ Abs(a.scale - 100) < Abs(b.scale - 100)

\* Stable sort by rank: an element moves behind those that rank before it and
\* behind the earlier ones it does not rank before.
sortRanked(ms) ==
    LET n == Len(ms)
        ahead(i) == {j \in 1..n : \/ ranksBefore(ms[j], ms[i])
                                  \/ j < i /\ ~ranksBefore(ms[i], ms[j])}
        place == [i \in 1..n |-> Cardinality(ahead(i)) + 1]
    IN [k \in 1..n |-> ms[CHOOSE i \in 1..n : place[i] = k]]

\* Non-maximum suppression over a ranked list: a candidate stays unless it
\* overlaps one that ranks before it and stayed.
RECURSIVE suppress(_, _)
suppress(ranked, kept) ==
    IF ranked = <<>> THEN kept
    ELSE IF \E i \in 1..Len(kept) : overlaps(kept[i], Head(ranked))
         THEN suppress(Tail(ranked), kept)
         ELSE suppress(Tail(ranked), Append(kept, Head(ranked)))

\* Non-maximum suppression read pair by pair: a candidate stays unless it
\* overlaps one that ranks before it, whether that one stayed or not.
RECURSIVE suppressPairwiseFrom(_, _, _)
\* `seen` are the candidates that rank before the rest, `kept` those that stay.
suppressPairwiseFrom(ranked, seen, kept) ==
    IF ranked = <<>> THEN kept
    ELSE IF \E i \in 1..Len(seen) : overlaps(seen[i], Head(ranked))
         THEN suppressPairwiseFrom(Tail(ranked), Append(seen, Head(ranked)), kept)
         ELSE suppressPairwiseFrom(Tail(ranked), Append(seen, Head(ranked)),
                                   Append(kept, Head(ranked)))

suppressPairwise(ranked) == suppressPairwiseFrom(ranked, <<>>, <<>>)

\* Sections 4.4 and 4.5 say "keep only the higher one" of an overlapping pair
\* and do not say whether a suppressed candidate still suppresses others:
\* the usual procedure (it does not) and the pairwise one are both modelled.
nonMaximumSuppression(ranked, nms) ==
    IF nms = "greedy" THEN suppress(ranked, <<>>) ELSE suppressPairwise(ranked)

\* Section 4.4: the candidates of one scale, after the local suppression.
matchScale(hay, tpl, scale, c, env) ==
    LET w == scaledDim(tpl.w, scale)
        h == scaledDim(tpl.h, scale)
        scaled == resize(tpl, w, h)
        ps == placements(hay, w, h, env.tie)
        all == [i \in 1..Len(ps) |->
                   [t |-> "match", x |-> ps[i][1], y |-> ps[i][2], width |-> w,
                    height |-> h, confidence |-> score(hay, scaled, ps[i][1], ps[i][2]),
                    scale |-> scale]]
        good(m) == m.confidence >= c.confidence
    IN nonMaximumSuppression(sortRanked(SelectSeq(all, good)), env.nms)

RECURSIVE matchScalesFrom(_, _, _, _, _, _)
\* The candidates of the scales from the i-th on, in the order of the scales.
matchScalesFrom(hay, tpl, scales, i, c, env) ==
    IF i > Len(scales) THEN <<>>
    ELSE matchScale(hay, tpl, scales[i], c, env)
            \o matchScalesFrom(hay, tpl, scales, i + 1, c, env)

\* Section 4.4: the candidates of all searched scales.
matchScales(hay, tpl, scales, c, env) == matchScalesFrom(hay, tpl, scales, 1, c, env)

\* Section 4.5: suppress across scales, rank, truncate to the limit.
aggregate(candidates, c, env) ==
    LET ranked == nonMaximumSuppression(sortRanked(candidates), env.nms)
    IN SubSeq(ranked, 1, Min2(Len(ranked), c.limit))

\* Section 4.6: results of a region search are moved to screen coordinates.
translate(ms, dx, dy) ==
    [i \in 1..Len(ms) |-> [ms[i] EXCEPT !.x = @ + dx, !.y = @ + dy]]

\* The whole pipeline of one native call: the ranked list or the error, and
\* the number of captures made.  region is <<>> (whole screen) or <<x, y, w, h>>.
\* env is what the caller does not control: the order of equally good
\* placements (tie) and whether the capture fails.  The configuration is
\* resolved and validated at the entry point, before any other work, and the
\* region is checked next, before the capture.
nativeSearch(screen, tpl, region, cfg, env) ==
    LET c == resolveConfig(cfg)
        whole == region = <<>>
        x == IF whole THEN 0 ELSE region[1]
        y == IF whole THEN 0 ELSE region[2]
        w == IF whole THEN ScreenW ELSE region[3]
        h == IF whole THEN ScreenH ELSE region[4]
        badConfig == ~validConfig(c)
        badRegion == ~whole /\ ~validRegion(x, y, w, h)
        variants == searchedScales(tpl, w, h, c)
        scales == [i \in 1..Len(variants) |-> variants[i].scale]
    IN IF badConfig
       THEN [out |-> Throw("ValidationError"), captures |-> 0, scales |-> <<>>]
       ELSE IF badRegion
            THEN [out |-> Throw("BoundsError"), captures |-> 0, scales |-> <<>>]
       ELSE IF env.captureFails
            THEN [out |-> Throw("CaptureError"), captures |-> 1, scales |-> <<>>]
       ELSE [out |-> Ok([t |-> "list",
                         s |-> translate(
                                 aggregate(matchScales(capture(screen, x, y, w, h),
                                                       tpl, scales, c, env),
                                           c, env),
                                 x, y)]),
             captures |-> 1,
             scales |-> variants]

\* bot.findAllOnScreen / bot.findAllInRegion: the ranked list.
nativeFindAll(screen, tpl, region, cfg, env) ==
    nativeSearch(screen, tpl, region, cfg, env)

\* bot.findOnScreen / bot.findInRegion: the head of the ranked list, or null.
nativeFind(screen, tpl, region, cfg, env) ==
    LET r == nativeSearch(screen, tpl, region, cfg, env)
    IN IF r.out.kind = "throw" THEN r
       ELSE [out |-> Ok(IF r.out.val.s = <<>> THEN NullV ELSE Head(r.out.val.s)),
             captures |-> r.captures, scales |-> r.scales]

----------------------------------------------------------------------------
(* Searches through the wrappers and the engine *)

\* `const buffer = fs.readFileSync(path); return { buffer, path };`
imageResourceSync(path, fileBytes) ==
    [t |-> "resource", buffer |-> fileBytes, path |-> [t |-> "str", s |-> path]]

\* `return { buffer };`
imageResourceFromBuffer(buffer) ==
    [t |-> "resource", buffer |-> buffer, path |-> UndefinedV]

\* The templates searched for: small images cut from three patterns.
TemplateSources == {{}, {<<0, 0>>}, {<<1, 0>>}}

Templates ==
    {imageResourceFromBuffer(capture(src, 0, 0, 2, 1)) : src \in TemplateSources}
        \cup {imageResourceFromBuffer(capture({<<0, 0>>}, 0, 0, 1, 1))}

ConfigOf(multi, steps, conf, lim) ==
    [t |-> "config", searchMultipleScales |-> multi, useGrayscale |-> UndefinedV,
     scaleSteps |-> steps, confidence |-> conf, limit |-> lim]

StepsV(s) == [t |-> "list", s |-> s]

\* The configurations the callers pass: none, partial and complete ones that
\* are well formed, and malformed ones.
GoodConfigs ==
    { UndefinedV,
      ConfigOf(UndefinedV, UndefinedV, NumV(50), UndefinedV),
      ConfigOf(BoolV(FALSE), StepsV(<<>>), NumV(100), NumV(1)),
      ConfigOf(BoolV(TRUE), StepsV(<<50, 100>>), NumV(0), NumV(2)) }

BadConfigs ==
    { ConfigOf(UndefinedV, UndefinedV, NumV(101), UndefinedV),
      ConfigOf(BoolV(FALSE), UndefinedV, NumV(-1), UndefinedV),
      ConfigOf(UndefinedV, UndefinedV, UndefinedV, NumV(0)),
      ConfigOf(UndefinedV, StepsV(<<>>), UndefinedV, UndefinedV),
      ConfigOf(BoolV(TRUE), StepsV(<<100, 0>>), UndefinedV, UndefinedV) }

EngineConfigs == GoodConfigs \cup BadConfigs

\* The regions the callers pass: inside the screen, past its lower edge, with
\* a negative origin and with a dimension that is not positive.
EngineRegions ==
    {<<x, y, w, h>> : x \in Coords, y \in {0, MaxCoord}, w \in Sizes, h \in {1, MaxCoord + 1}}
        \cup {<<-1, 0, 1, 1>>, <<0, -1, 1, 1>>, <<0, 0, 0, 1>>, <<0, 0, 1, 0>>,
              <<0, 0, -1, 1>>, <<2, 0, 2, 1>>}

\* What is outside the caller's control: the order of equally good
\* placements, whether the capture succeeds, and how the aggregator suppresses.
Environments ==
    { [tie |-> "first", captureFails |-> FALSE, nms |-> "greedy"],
      [tie |-> "last", captureFails |-> FALSE, nms |-> "greedy"],
      [tie |-> "first", captureFails |-> TRUE, nms |-> "greedy"],
      [tie |-> "first", captureFails |-> FALSE, nms |-> "pairwise"] }

\* The scenes of the model: every screen with either order of placements, one
\* screen for a failing capture, and two for the other reading of the
\* suppression.
Scenes ==
    {<<sc, e>> \in Screens \X Environments :
        /\ e.captureFails => sc = {<<0, 0>>}
        /\ e.nms = "pairwise" => sc \in {{}, {<<2, 0>>}}}

\* Caller id has a search or a wait in flight.
InFlight(id) == calls[id].pc = "pending" \/ pollers[id].pc \in Active

\* The caller's side of a call with a template and a configuration: a caller
\* that has another call in flight passes the objects it holds, which are
\* shared by both calls; otherwise it passes objects it has constructed for
\* this call.
Pass(id, template, config) ==
    /\ InFlight(id) => heap[id] = [template |-> template, config |-> config]
    /\ heap' = [heap EXCEPT ![id] = [template |-> template, config |-> config]]

\* What a search hands to the native function: `template.buffer` and
\* `toMatchConfigJs(config)`.
nativeArgs(template, config) == <<template.buffer, toMatchConfigJs(config)>>

\* The screen shows something, or something else: what a capture sees from
\* now on.  It may change while searches are in flight.
Show(screen, env) ==
    /\ search.op \in {"none", "scene"}
    /\ search' = [op |-> "scene", screen |-> screen, env |-> env]
    /\ UNCHANGED <<clockVars, pollerVars, lastCall, calls, pollers, cli, proc, heap>>

\* A wrapper is called by caller id and runs up to its `await`: the native
\* function is called with template.buffer, the region and
\* toMatchConfigJs(config), and its promise is pending.  captured is the
\* region the template was captured from and capturedFrom the scene it was
\* captured in, <<>> if it was not captured.
SearchCall(id, op, template, region, config, captured, capturedFrom) ==
    /\ calls[id].pc = "idle"
    /\ Pass(id, template, config)
    /\ LET onScreen == op \in {"findOnScreen", "findAllOnScreen"}
       IN /\ onScreen <=> region = <<>>
          /\ calls' = [calls EXCEPT ![id] =
                [pc |-> "pending", op |-> op, template |-> template,
                 region |-> region, captured |-> captured,
                 capturedFrom |-> capturedFrom, config |-> config,
                 nativeRegion |-> IF onScreen THEN <<>>
                                  ELSE regionArgs(region[1], region[2],
                                                  region[3], region[4]),
                 nativeConfig |-> nativeArgs(template, config)[2],
                 nativeBuffer |-> nativeArgs(template, config)[1]]]
    /\ UNCHANGED <<clockVars, pollerVars, lastCall, search, pollers, cli, proc>>

\* The native search of caller id's call runs on what the screen shows now,
\* its promise settles and the wrapper goes on after its `await`: it
\* rethrows, or maps the result and returns it.  The call is no longer in
\* flight; what it did is kept in search, with the caller's objects as they
\* are when it settles.
SearchSettle(id) ==
    /\ calls[id].pc = "pending"
    /\ search.op = "scene"
    /\ LET c == calls[id]
           screen == search.screen
           env == search.env
           single == c.op \in {"findOnScreen", "findInRegion"}
           nat == IF single
                  THEN nativeFind(screen, c.nativeBuffer, c.nativeRegion,
                                  c.nativeConfig, env)
                  ELSE nativeFindAll(screen, c.nativeBuffer, c.nativeRegion,
                                     c.nativeConfig, env)
           out == CASE c.op = "findOnScreen" -> findOnScreen(nat.out)
                    [] c.op = "findAllOnScreen" -> findAllOnScreen(nat.out)
                    [] c.op = "findInRegion" -> findInRegion(nat.out)
                    [] c.op = "findAllInRegion" -> findAllInRegion(nat.out)
       IN search' = [op |-> c.op, template |-> c.template, region |-> c.region,
                     captured |-> c.captured, capturedFrom |-> c.capturedFrom,
                     config |-> c.config, screen |-> screen, env |-> env,
                     nativeRegion |-> c.nativeRegion,
                     nativeConfig |-> c.nativeConfig,
                     nativeBuffer |-> c.nativeBuffer,
                     native |-> nat.out, captures |-> nat.captures,
                     scales |-> nat.scales, out |-> out,
                     after |-> heap[id]]
    /\ calls' = [calls EXCEPT ![id] = NoCall]
    /\ UNCHANGED <<clockVars, pollerVars, lastCall, pollers, cli, proc, heap>>

\* The caller is done with the result.
SearchForget ==
    /\ search.op \notin {"none", "scene"}
    /\ search' = [op |-> "none"]
    /\ heap' = [id \in Callers |-> IF InFlight(id) THEN heap[id] ELSE NoObjects]
    /\ UNCHANGED <<clockVars, pollerVars, lastCall, calls, pollers, cli, proc>>

\* What the screen changes to while a search is in flight: everything is
\* gone, two pixels are lit, or the screen cannot be captured any more.
ChangedScenes ==
    {scene \in Scenes :
        \/ scene[2].captureFails
        \/ /\ scene[1] \in {{}, {<<0, 0>>, <<2, 0>>}}
           /\ scene[2].tie = "first" /\ scene[2].nms = "greedy"}

\* The screen shows any scene before a search is called, and changes while
\* one is in flight.
ShowStep ==
    \/ /\ search.op = "none"
       /\ \E scene \in Scenes : Show(scene[1], scene[2])
    \/ /\ search.op = "scene"
       /\ \E id \in Callers : calls[id].pc = "pending"
       /\ \E scene \in ChangedScenes : Show(scene[1], scene[2])

\* The searches that are made while another one is in flight: one template
\* and no configuration, on the whole screen or in one region.
OverlapTemplates == {imageResourceFromBuffer(capture({<<0, 0>>}, 0, 0, 1, 1))}

OverlapRegions == {<<>>, <<0, 0, 1, 1>>}

Overlapping(template, region, config, captured) ==
    /\ template \in OverlapTemplates
    /\ region \in OverlapRegions
    /\ config = UndefinedV
    /\ captured = <<>>

\* Caller a searches with any arguments of the model; caller b makes its
\* call while one of the overlapping searches of a is in flight.
SearchStep ==
    /\ search.op = "scene"
    /\ \/ /\ calls["a"].pc = "idle" /\ calls["b"].pc = "idle"
          /\ \E op \in {"findOnScreen", "findAllOnScreen"}, tpl \in Templates,
                c \in EngineConfigs : SearchCall("a", op, tpl, <<>>, c, <<>>, <<>>)
       \/ /\ calls["a"].pc = "idle" /\ calls["b"].pc = "idle"
          /\ \E op \in {"findInRegion", "findAllInRegion"}, tpl \in Templates,
                r \in EngineRegions, c \in EngineConfigs :
                    SearchCall("a", op, tpl, r, c, <<>>, <<>>)
       \/ /\ calls["a"].pc = "pending" /\ calls["b"].pc = "idle"
          /\ Overlapping(calls["a"].template, calls["a"].region, calls["a"].config,
                         calls["a"].captured)
          /\ \E op \in {"findOnScreen", "findAllOnScreen", "findInRegion",
                          "findAllInRegion"},
                tpl \in OverlapTemplates, r \in OverlapRegions :
                    SearchCall("b", op, tpl, r, UndefinedV, <<>>, <<>>)

SearchSettleStep == \E id \in Callers : SearchSettle(id)

\* The configurations of a search at the size of the template only.
SelfConfigs ==
    {ConfigOf(BoolV(FALSE), UndefinedV, conf, UndefinedV) :
        conf \in {UndefinedV, NumV(50), NumV(100)}}

\* The regions captured for a template: those of the model that lie on the
\* screen, and the whole screen.
CaptureRegions ==
    {r \in EngineRegions : validRegion(r[1], r[2], r[3], r[4])}
        \cup {<<0, 0, ScreenW, ScreenH>>}

\* `captureScreenRegion(x, y, w, h)` has resolved with what the screen shows
\* now, `imageResourceFromBuffer(capture.image)`, and
\* `findOnScreen(capturedTemplate, config)` is called.
SelfMatch(id, region, config) ==
    /\ search.op = "scene"
    /\ ~search.env.captureFails
    /\ SearchCall(id, "findOnScreen",
                  imageResourceFromBuffer(
                      capture(search.screen, region[1], region[2], region[3], region[4])),
                  <<>>, config, region, <<search.screen, search.env>>)

SelfMatchStep ==
    /\ search.op = "scene"
    /\ calls["a"].pc = "idle" /\ calls["b"].pc = "idle"
    /\ \E r \in CaptureRegions, c \in SelfConfigs : SelfMatch("a", r, c)

----------------------------------------------------------------------------
(* Overlapping invocations of waitFor and waitForGone.  Each call of an     *)
(* async function has its own parameters and locals (startTime, match);     *)
(* the invocations interleave at their awaits and share only the clock.     *)

ConcTimeouts == {1, 2}
ConcIntervals == {1, 2}

\* What the searches of overlapping invocations return.
ConcOutcomes ==
    {Ok(NullV), Throw("CaptureError")}
        \cup {Ok(CHOOSE m \in MatchResultJs : m.confidence = 100)}

ConcTemplates == {imageResourceSync("./button.png", capture({<<0, 0>>}, 0, 0, 1, 1))}

ConcConfigs == {UndefinedV, ConfigOf(UndefinedV, UndefinedV, NumV(50), UndefinedV)}

\* A mutant: startTime is one variable of the module, which every call sets.
startInvocationShared(ps, id, p) ==
    [j \in DOMAIN ps |->
        IF j = id THEN p ELSE [ps[j] EXCEPT !.startTime = p.startTime]]

\* A call creates the parameters and locals of its own invocation.
startInvocation(ps, id, p) == [ps EXCEPT ![id] = p]

\* waitFor(template, t, i, config) / waitForGone(...) is called by caller id,
\* who makes one call: the parameters template and config refer to the
\* caller's objects.
ConcCall(id, f, t, i, template, config) ==
    /\ pollers[id].pc = "idle"
    /\ real < MaxClock
    /\ Pass(id, template, config)
    /\ pollers' = startInvocation(pollers, id,
                    [NotCalled EXCEPT !.pc = "check", !.fn = f, !.timeout = t,
                                      !.interval = i,
                                      !.given = <<template, config>>,
                                      !.startTime = wall])
    /\ UNCHANGED <<clockVars, pollerVars, lastCall, calls, search, cli, proc>>

\* The loop condition of invocation id: findOnScreen(template, config) is
\* called, which reads template.buffer and the fields of config as they are
\* now, or the loop is left and null / false returned.
ConcCheckDeadline(id) ==
    LET p == pollers[id]
        held == heap[id]
    IN
    /\ p.pc = "check"
    /\ pollers' =
          [pollers EXCEPT ![id] =
              IF deadlineOpen(wall, p.startTime, p.timeout)
              THEN [p EXCEPT !.pc = "search",
                             !.iterations = Min2(@ + 1, 2),
                             !.firstWith = IF p.iterations = 0
                                           THEN nativeArgs(held.template, held.config)
                                           ELSE @,
                             !.searchedWith = nativeArgs(held.template, held.config)]
              ELSE [p EXCEPT !.pc = "done", !.result = Ok(timedOutValue(p.fn))]]
    /\ UNCHANGED <<clockVars, pollerVars, lastCall, calls, search, cli, proc, heap>>

\* The search of invocation id settles.
ConcSearchReturn(id, native) ==
    LET p == pollers[id]
        out == findOnScreen(native)
    IN /\ p.pc = "search"
       /\ pollers' =
             [pollers EXCEPT ![id] =
                 IF out.kind = "throw"
                 THEN [p EXCEPT !.pc = "done", !.result = out]
                 ELSE [p EXCEPT !.pc = "branch", !.match = out.val]]
       /\ UNCHANGED <<clockVars, pollerVars, lastCall, calls, search, cli, proc, heap>>

\* The test on `match` of invocation id: return, or `await sleep(interval)`.
ConcBranch(id) ==
    LET p == pollers[id] IN
    /\ p.pc = "branch"
    /\ pollers' =
          [pollers EXCEPT ![id] =
              IF loopReturns(p.fn, p.match)
              THEN [p EXCEPT !.pc = "done", !.result = Ok(foundValue(p.fn, p.match))]
              ELSE [p EXCEPT !.pc = "sleep", !.wake = sleep(real, p.interval)]]
    /\ UNCHANGED <<clockVars, pollerVars, lastCall, calls, search, cli, proc, heap>>

\* The timer of invocation id fires.
ConcSleepDone(id) ==
    LET p == pollers[id] IN
    /\ p.pc = "sleep"
    /\ real >= p.wake
    /\ pollers' = [pollers EXCEPT ![id] = [p EXCEPT !.pc = "check"]]
    /\ UNCHANGED <<clockVars, pollerVars, lastCall, calls, search, cli, proc, heap>>

\* One millisecond passes.  Time is followed while an invocation can still
\* need it: while a call can be made, while the deadline of an invocation in
\* flight is open, and until a pending timer has fired, early or on time.
ConcTick ==
    /\ \/ real < MaxClock
       \/ \E id \in Ids :
             /\ pollers[id].pc \in Active
             /\ deadlineOpen(wall, pollers[id].startTime, pollers[id].timeout)
       \/ \E id \in Ids :
             /\ pollers[id].pc = "sleep"
             /\ real - (pollers[id].wake - sleep(0, pollers[id].interval))
                    < pollers[id].interval
    /\ real' = real + 1
    /\ wall' = wall + 1
    /\ UNCHANGED <<adjusts, pollerVars, lastCall, calls, search, pollers, cli, proc, heap>>

\* Caller a passes any arguments of the model; caller b the longer timeout
\* with the shorter interval and a configuration.
ConcCallStep ==
    \/ \E f \in {"waitFor", "waitForGone"}, t \in ConcTimeouts, i \in ConcIntervals,
          template \in ConcTemplates, config \in ConcConfigs :
            ConcCall("a", f, t, i, template, config)
    \/ \E f \in {"waitFor", "waitForGone"}, template \in ConcTemplates :
            ConcCall("b", f, 2, 1, template,
                     ConfigOf(UndefinedV, UndefinedV, NumV(50), UndefinedV))

ConcPollerStep ==
    \E id \in Ids :
        \/ ConcCheckDeadline(id)
        \/ \E n \in ConcOutcomes : ConcSearchReturn(id, n)
        \/ ConcBranch(id)
        \/ ConcSleepDone(id)

----------------------------------------------------------------------------
(* The six operations together.  Caller a searches and waits with a        *)
(* template loaded from a file and, or not, a configuration; caller b      *)
(* searches the whole screen with a template of its own.                   *)

ApiScenes == {scene \in ChangedScenes : ~scene[2].captureFails}

ApiOps(id) ==
    IF id = "a"
    THEN {"findOnScreen", "findAllOnScreen", "findInRegion", "findAllInRegion"}
    ELSE {"findOnScreen"}

ApiTemplates(id) == IF id = "a" THEN ConcTemplates ELSE OverlapTemplates

ApiConfigs(id) == IF id = "a" THEN ConcConfigs ELSE {UndefinedV}

\* The screen shows something else, at any time.
ApiShowStep == \E scene \in ApiScenes : Show(scene[1], scene[2])

\* A caller calls one of the four searches.
ApiSearchStep ==
    \E id \in Callers :
        /\ calls[id].pc = "idle"
        /\ \E op \in ApiOps(id), tpl \in ApiTemplates(id), c \in ApiConfigs(id) :
                SearchCall(id, op, tpl,
                           IF op \in {"findOnScreen", "findAllOnScreen"}
                           THEN <<>> ELSE <<0, 0, 1, 1>>,
                           c, <<>>, <<>>)

\* Caller a calls waitFor or waitForGone.
ApiWaitStep ==
    /\ pollers["a"].pc = "idle"
    /\ \E f \in {"waitFor", "waitForGone"}, tpl \in ApiTemplates("a"),
          c \in ApiConfigs("a") : ConcCall("a", f, 2, 1, tpl, c)

----------------------------------------------------------------------------
(* The bot CLI: packages/bot-cli/src/commands/call.ts, invoke.ts and        *)
(* validate.ts.  callCommand, invokeExport, validateArgs and writeResult    *)
(* are async functions: a command runs up to its next `await`, returns to   *)
(* the event loop, and goes on when what it awaits has settled.  Commands   *)
(* that overlap interleave there; they share the module variable            *)
(* cachedSpec of validate.ts.                                               *)

\* A function export: fn.length (the parameters before the first one with a
\* default value), the number of parameters it declares, and whether it is
\* an async function.
FunctionV(length, declared, async) ==
    [t |-> "function", length |-> length, declared |-> declared, async |-> async]

StringV(str) == [t |-> "str", s |-> str]
ObjectV(fields) == [t |-> "object", fields |-> fields]
ArrayV(items) == [t |-> "array", items |-> items]
BufferV(bytes) == [t |-> "buffer", length |-> bytes]

\* `import * as bot from "@tego/botjs"`: findOnScreen(template, config?),
\* imageResourceSync(path), waitFor(template, timeout = 10000,
\* interval = 500, config?), a name that is only a type, and a name the
\* module does not have.
ExportNames ==
    {"findOnScreen", "imageResourceSync", "waitFor", "MatchConfig",
     "definitelyNotARealExport"}

bot(exportName) ==
    CASE exportName = "findOnScreen" -> FunctionV(2, 2, TRUE)
      [] exportName = "imageResourceSync" -> FunctionV(1, 1, FALSE)
      [] exportName = "waitFor" -> FunctionV(1, 4, TRUE)
      [] OTHER -> UndefinedV

\* botjs/generated/api.json: kind and number of parameters that are not optional.
ApiEntry(kind, requiredCount) == [t |-> "entry", kind |-> kind, requiredCount |-> requiredCount]

apiSpec(exportName) ==
    CASE exportName = "findOnScreen" -> ApiEntry("function", 1)
      [] exportName = "imageResourceSync" -> ApiEntry("function", 1)
      [] exportName = "waitFor" -> ApiEntry("function", 1)
      [] exportName = "MatchConfig" -> ApiEntry("interface", 0)
      [] OTHER -> UndefinedV

\* The JSON values given as arguments.
JsonArgLists ==
    {<<>>, <<NumV(1)>>, <<NumV(1), NumV(2)>>, <<ObjectV("x")>>, <<NullV>>,
     <<ArrayV(<<>>)>>, <<ObjectV("x"), NumV(1)>>}

\* The arguments of a direct call of invokeExport, which need not come from JSON.
ArgLists == JsonArgLists \cup {<<BufferV(3)>>}

\* What the --json / --file / --stdin text parses to: an array, another
\* value, or nothing (JSON.parse or readFile throws).
Loaded == {ArrayV(l) : l \in JsonArgLists} \cup {ObjectV("x"), NumV(1)}

LoadOutcomes == {Ok(v) : v \in Loaded} \cup {Throw("SyntaxError")}

\* What the invoked export returns or resolves to, or throws: nothing, null,
\* a string, a Buffer, an object with a Buffer as `image`, an object with a
\* Buffer as `buffer` (an ImageResource), another object.
FnOutcomes ==
    {Ok(UndefinedV), Ok(NullV), Ok(StringV("done")), Ok(BufferV(3)),
     Ok([t |-> "object", fields |-> "image", image |-> BufferV(3)]),
     Ok([t |-> "object", fields |-> "buffer,path", buffer |-> BufferV(2)]),
     Ok(ObjectV("x")),
     Throw("Error")}

\* How `readFile(apiPath, "utf8")` and `fs.writeFile(options.out, ...)` settle.
ReadOutcomes == {Ok(UndefinedV), Throw("ENOENT")}
WriteOutcomes == {Ok(UndefinedV), Throw("EACCES")}

InvokeOptions ==
    [out : {UndefinedV, StringV("shot.png")},
     jsonOutput : {UndefinedV, BoolV(TRUE)},
     validate : {UndefinedV, BoolV(TRUE), BoolV(FALSE)},
     dryRun : {UndefinedV, BoolV(TRUE)}]

\* A command as it is called: nothing validated, invoked or written yet.
\* validated: validateArgs was called; reading: its readFile is in flight;
\* invoked: how often the export was called; files, stdout: the files and the
\* chunks this command wrote; out: how it settled.
command(op, exportName, options) ==
    [pc |-> "called", op |-> op, exportName |-> exportName, options |-> options,
     forwarded |-> options, loaded |-> NoOutcome, args |-> <<>>,
     validated |-> FALSE, reading |-> FALSE, invoked |-> 0, result |-> NoOutcome,
     writing |-> NullV, files |-> <<>>, stdout |-> <<>>, out |-> NoOutcome]

\* The promise of the command is rejected / resolved.
rejected(c, outcome) == [c EXCEPT !.pc = "done", !.out = outcome]
resolved(c, chunks) ==
    [c EXCEPT !.pc = "done", !.stdout = @ \o chunks, !.out = Ok(UndefinedV)]

\* extractBufferField(value): the Buffer under `image`, else the one under
\* `buffer`, with the other fields as `remaining`; null without either.
extractBufferField(value) ==
    IF value.t # "object" THEN NullV
    ELSE IF value.fields = "image"
         THEN [t |-> "extracted", buffer |-> value.image, remaining |-> ""]
    ELSE IF value.fields = "buffer,path"
         THEN [t |-> "extracted", buffer |-> value.buffer, remaining |-> "path"]
    ELSE NullV

\* writeResult(result, options) up to its first `await` or its return.
writeResult(c, value) ==
    LET options == c.forwarded
        json == Truthy(options.jsonOutput)
        extracted == extractBufferField(value)
    IN IF value.t = "buffer"
       THEN IF ~Truthy(options.out)
            THEN rejected(c, Throw("Buffer result requires --out <path> to write file."))
            ELSE [c EXCEPT !.pc = "writeFile", !.writing = value]
       ELSE IF Truthy(options.out)
            THEN IF ~Truthy(extracted)
                 THEN rejected(c, Throw("--out was provided but result did not contain a Buffer."))
                 ELSE [c EXCEPT !.pc = "writeFile", !.writing = extracted]
       ELSE IF json THEN resolved(c, <<"json:result">>)
       ELSE IF value.t = "undefined" THEN resolved(c, <<"OK">>)
       ELSE IF value.t = "str" THEN resolved(c, <<"text">>)
       ELSE resolved(c, <<"json:pretty">>)

\* writeResult after `await fs.writeFile(...)`: the line that reports the
\* file.  For a Buffer result the JSON line has no newline at its end.
writeResultWritten(c, written) ==
    LET json == Truthy(c.forwarded.jsonOutput)
    IN IF written.kind = "throw" THEN rejected(c, written)
       ELSE IF ~json THEN resolved(c, <<"Wrote bytes">>)
       ELSE IF c.writing.t = "buffer" THEN resolved(c, <<"json:out,bytes (no newline)">>)
       ELSE IF c.writing.remaining # ""
            THEN resolved(c, <<"json:out,bytes,result">>)
       ELSE resolved(c, <<"json:out,bytes">>)

\* loadApiSpec() awaits readFile unless cachedSpec is set; validateArgs calls
\* it only `if (validate)`.
validateArgsReads(validate, cachedSpec) == validate /\ ~cachedSpec

\* A mutant: the number of arguments is never looked at.
validateArgsNever(exportName, args, validate, spec) ==
    IF validate /\ spec.kind = "throw" THEN spec ELSE Ok(UndefinedV)

\* validateArgs(exportName, args, validate), whose loadApiSpec() settled as
\* spec: with the cached or the parsed specification, or with the error of
\* readFile.
validateArgs(exportName, args, validate, spec) ==
    IF ~validate THEN Ok(UndefinedV)
    ELSE IF spec.kind = "throw" THEN spec
    ELSE LET entry == apiSpec(exportName)
         IN IF ~Truthy(entry) THEN Ok(UndefinedV)
            ELSE IF entry.kind # "function" THEN Ok(UndefinedV)
            ELSE IF Len(args) < entry.requiredCount
                 THEN Throw("Expected at least n argument(s)")
            ELSE Ok(UndefinedV)

\* `args[0] && typeof args[0] === "object" && !Array.isArray(args[0])`: a
\* plain object, and also a Buffer.
isObjectNotArray(v) == v.t \in {"object", "buffer"}

\* A mutant: validateArgs is called before the export is looked at.
invokeExportValidatesFirst(c, args, options, cachedSpec) ==
    LET f == bot(c.exportName)
        started == [c EXCEPT !.args = args, !.forwarded = options,
                             !.validated = TRUE]
    IN IF f.t # "function"
       THEN rejected(started, Throw("Export is not a function."))
       ELSE [started EXCEPT !.pc = "validateArgs",
                            !.reading = validateArgsReads(options.validate # BoolV(FALSE),
                                                          cachedSpec)]

\* invokeExport(exportName, args, options) up to `await validateArgs(...)`.
invokeExport(c, args, options, cachedSpec) ==
    LET f == bot(c.exportName)
        shouldValidate == options.validate # BoolV(FALSE)
        started == [c EXCEPT !.args = args, !.forwarded = options]
    IN IF f.t # "function"
       THEN rejected(started, Throw("Export is not a function."))
       ELSE [started EXCEPT !.pc = "validateArgs", !.validated = TRUE,
                            !.reading = validateArgsReads(shouldValidate, cachedSpec)]

\* invokeExport from the result of the export (what a function that is not
\* async returned or threw, or how the promise it awaits settled) to the
\* first await of writeResult.
invokeExportCalled(c, res) ==
    IF res.kind = "throw" THEN rejected([c EXCEPT !.result = res], res)
    ELSE writeResult([c EXCEPT !.result = res], res.val)

\* A mutant: dryRun is looked at only once the export has been called.
invokeExportValidatedDryRunLate(c, spec, res) ==
    LET f == bot(c.exportName)
        minArgs == f.length
        shouldValidate == c.forwarded.validate # BoolV(FALSE)
        checked == validateArgs(c.exportName, c.args, shouldValidate, spec)
        json == Truthy(c.forwarded.jsonOutput)
        read == [c EXCEPT !.reading = FALSE]
        called == [read EXCEPT !.invoked = @ + 1]
    IN IF checked.kind = "throw" THEN rejected(read, checked)
       ELSE IF shouldValidate /\ Len(c.args) = 1 /\ isObjectNotArray(c.args[1])
                /\ minArgs > 1
            THEN rejected(read, Throw("Argument should be an array"))
       ELSE IF Truthy(c.forwarded.dryRun)
            THEN resolved(called, <<IF json THEN "json:ok,exportName,args,dryRun:true"
                                    ELSE "OK (dry-run)">>)
       ELSE IF f.async THEN [called EXCEPT !.pc = "call"]
       ELSE invokeExportCalled(called, res)

\* invokeExport from the settlement of validateArgs, as spec, to its next
\* `await`: the single-object check, the dry run, the call of the export.
\* res is what the export returns or throws if it is not an async function.
invokeExportValidated(c, spec, res) ==
    LET f == bot(c.exportName)
        minArgs == f.length
        shouldValidate == c.forwarded.validate # BoolV(FALSE)
        checked == validateArgs(c.exportName, c.args, shouldValidate, spec)
        json == Truthy(c.forwarded.jsonOutput)
        read == [c EXCEPT !.reading = FALSE]
        called == [read EXCEPT !.invoked = @ + 1]
    IN IF checked.kind = "throw" THEN rejected(read, checked)
       ELSE IF shouldValidate /\ Len(c.args) = 1 /\ isObjectNotArray(c.args[1])
                /\ minArgs > 1
            THEN rejected(read, Throw("Argument should be an array"))
       ELSE IF Truthy(c.forwarded.dryRun)
            THEN resolved(read, <<IF json THEN "json:ok,exportName,args,dryRun:true"
                                  ELSE "OK (dry-run)">>)
       ELSE IF f.async THEN [called EXCEPT !.pc = "call"]
       ELSE invokeExportCalled(called, res)

\* `Array.isArray(args) ? args : [args]`
normalizedArgs(args) == IF args.t = "array" THEN args.items ELSE <<args>>

\* The options callCommand hands to invokeExport: `{ ...options, out: undefined }`
\* for a dry run, else the options as they are.
forwardedOptions(options) ==
    IF Truthy(options.dryRun) THEN [options EXCEPT !.out = UndefinedV] ELSE options

\* callCommand(exportName, options) after `await loadArgs(options)`, which
\* settled as loaded: invokeExport is called and runs up to its first await.
callCommand(c, loaded, cachedSpec) ==
    IF loaded.kind = "throw"
    THEN rejected([c EXCEPT !.loaded = loaded], loaded)
    ELSE invokeExport([c EXCEPT !.loaded = loaded], normalizedArgs(loaded.val),
                      forwardedOptions(c.options), cachedSpec)

\* `bot call <exportName>` with its options: callCommand is called and
\* awaits loadArgs(options).
CallCommand(id, exportName, options) ==
    /\ cli.cmds[id].pc = "idle"
    /\ cli' = [cli EXCEPT !.cmds[id] =
                  [command("callCommand", exportName, options) EXCEPT !.pc = "loadArgs"]]
    /\ UNCHANGED <<clockVars, pollerVars, lastCall, calls, search, pollers, proc, heap>>

\* loadArgs settles and callCommand goes on.
LoadArgsSettle(id, loaded) ==
    /\ cli.cmds[id].pc = "loadArgs"
    /\ cli' = [cli EXCEPT !.cmds[id] = callCommand(@, loaded, cli.cachedSpec)]
    /\ UNCHANGED <<clockVars, pollerVars, lastCall, calls, search, pollers, proc, heap>>

\* A direct call of invokeExport, which runs up to its first await.
InvokeExport(id, exportName, args, options) ==
    /\ cli.cmds[id].pc = "idle"
    /\ cli' = [cli EXCEPT !.cmds[id] =
                  invokeExport([command("invokeExport", exportName, options)
                                    EXCEPT !.loaded = Ok(ArrayV(args))],
                               args, options, cli.cachedSpec)]
    /\ UNCHANGED <<clockVars, pollerVars, lastCall, calls, search, pollers, proc, heap>>

\* validateArgs settles: at once if it read no file, else when readFile has
\* settled as read, which sets cachedSpec if it succeeded.  invokeExport goes
\* on to its next await.
ValidateArgsSettle(id, read, res) ==
    LET c == cli.cmds[id]
        spec == IF c.reading THEN read ELSE Ok(UndefinedV)
    IN /\ c.pc = "validateArgs"
       /\ cli' = [cli EXCEPT
                    !.cachedSpec = @ \/ (c.reading /\ read.kind = "ok"),
                    !.cmds[id] = invokeExportValidated(c, spec, res)]
       /\ UNCHANGED <<clockVars, pollerVars, lastCall, calls, search, pollers, proc, heap>>

\* The promise the export returned settles.
ExportSettle(id, res) ==
    /\ cli.cmds[id].pc = "call"
    /\ cli' = [cli EXCEPT !.cmds[id] = invokeExportCalled(@, res)]
    /\ UNCHANGED <<clockVars, pollerVars, lastCall, calls, search, pollers, proc, heap>>

\* fs.writeFile has written the file; its promise is still pending.
FileWritten(id) ==
    /\ cli.cmds[id].pc = "writeFile"
    /\ cli' = [cli EXCEPT !.cmds[id] =
                  [@ EXCEPT !.pc = "written",
                            !.files = @ \o <<cli.cmds[id].forwarded.out.s>>]]
    /\ UNCHANGED <<clockVars, pollerVars, lastCall, calls, search, pollers, proc, heap>>

\* fs.writeFile settles: it failed, or the file is written.
WriteFileSettle(id, written) ==
    /\ \/ cli.cmds[id].pc = "writeFile" /\ written.kind = "throw"
       \/ cli.cmds[id].pc = "written" /\ written.kind = "ok"
    /\ cli' = [cli EXCEPT !.cmds[id] = writeResultWritten(@, written)]
    /\ UNCHANGED <<clockVars, pollerVars, lastCall, calls, search, pollers, proc, heap>>

\* The caller is done with the command.
CliExit(id) ==
    /\ cli.cmds[id].pc = "done"
    /\ cli' = [cli EXCEPT !.cmds[id] = NoCommand]
    /\ UNCHANGED <<clockVars, pollerVars, lastCall, calls, search, pollers, proc, heap>>

\* Command p is called with any arguments of the model; command q is a
\* `bot call findOnScreen --out shot.png` with two arguments that is called
\* while p is in flight, and whose export resolves to a Buffer or throws.
OverlapOptions ==
    {o \in InvokeOptions : /\ o.dryRun = UndefinedV /\ o.validate = UndefinedV
                           /\ o.out # UndefinedV /\ o.jsonOutput = UndefinedV}

OverlapOutcomes == {Ok(BufferV(3)), Throw("Error")}

CallCommandStep ==
    \/ /\ cli.cmds["p"].pc = "idle" /\ cli.cmds["q"].pc = "idle"
       /\ \E exportName \in ExportNames, options \in InvokeOptions :
            CallCommand("p", exportName, options)
    \/ /\ cli.cmds["p"].pc \notin {"idle", "done"} /\ cli.cmds["q"].pc = "idle"
       /\ \E options \in OverlapOptions : CallCommand("q", "findOnScreen", options)

InvokeExportStep ==
    /\ cli.cmds["p"].pc = "idle" /\ cli.cmds["q"].pc = "idle"
    /\ \E exportName \in ExportNames, args \in ArgLists, options \in InvokeOptions :
            InvokeExport("p", exportName, args, options)

CliSettleStep ==
    \E id \in CliIds :
        \/ \E loaded \in LoadOutcomes :
              /\ id = "q" => loaded = Ok(ArrayV(<<ObjectV("x"), NumV(1)>>))
              /\ LoadArgsSettle(id, loaded)
        \/ \E read \in ReadOutcomes, res \in FnOutcomes : ValidateArgsSettle(id, read, res)
        \/ \E res \in FnOutcomes :
              /\ id = "q" => res \in OverlapOutcomes
              /\ ExportSettle(id, res)
        \/ FileWritten(id)
        \/ \E written \in WriteOutcomes : WriteFileSettle(id, written)

CliExitStep == \E id \in CliIds : CliExit(id)

----------------------------------------------------------------------------
(* executeScript: the script runner, which captures what a script writes.   *)

\* How many chunks are written to the two streams in one behaviour.
MaxWrites == 2

Streams == {"stdout", "stderr"}

RECURSIVE HookRuns(_)
\* The executeScript calls whose capturing closures a call of f goes through.
HookRuns(f) ==
    IF f.t = "hook" THEN {f.run} \cup HookRuns(f.to)
    ELSE IF f.t = "bound" THEN HookRuns(f.of)
    ELSE {}

RECURSIVE Target(_)
\* The function f is a bound copy of (f.bind(...) behaves as its target).
Target(f) == IF f.t = "bound" THEN Target(f.of) ELSE f

\* executeScript(scriptPath) up to its first await: the current write
\* functions are kept as bound copies and the capturing closures installed.
ExecuteScript(id) ==
    /\ proc.runs[id].pc = "idle"
    /\ LET originalStdoutWrite == Bound(proc.stdoutWrite)
           originalStderrWrite == Bound(proc.stderrWrite)
       IN proc' = [proc EXCEPT
                !.stdoutWrite = Hook(id, originalStdoutWrite),
                !.stderrWrite = Hook(id, originalStderrWrite),
                !.runs[id] = [pc |-> "tsx",
                              originalStdoutWrite |-> originalStdoutWrite,
                              originalStderrWrite |-> originalStderrWrite,
                              stdout |-> 0, stderr |-> 0, result |-> NoOutcome]]
    /\ UNCHANGED <<clockVars, pollerVars, lastCall, calls, search, pollers, cli, heap>>

\* Both write functions are set back to the copies the call kept, and the
\* call resolves with what it captured.
restore(id, success) ==
    [proc EXCEPT
        !.stdoutWrite = proc.runs[id].originalStdoutWrite,
        !.stderrWrite = proc.runs[id].originalStderrWrite,
        !.runs[id].pc = "done",
        !.runs[id].result =
            Ok([success |-> success, stdout |-> proc.runs[id].stdout,
                stderr |-> proc.runs[id].stderr])]

\* `await import("tsx")` settles: the script is imported next, or the catch
\* block runs.
TsxImported(id, loaded) ==
    /\ proc.runs[id].pc = "tsx"
    /\ proc' = IF loaded THEN [proc EXCEPT !.runs[id].pc = "script"]
               ELSE restore(id, FALSE)
    /\ UNCHANGED <<clockVars, pollerVars, lastCall, calls, search, pollers, cli, heap>>

\* `await import(fileUrl)` settles: the script ran to its end or threw.
ScriptSettled(id, success) ==
    /\ proc.runs[id].pc = "script"
    /\ proc' = restore(id, success)
    /\ UNCHANGED <<clockVars, pollerVars, lastCall, calls, search, pollers, cli, heap>>

\* Something calls process.stdout.write / process.stderr.write: every
\* capturing closure on the way to the stream adds the chunk to its text.
Write(stream) ==
    /\ proc.written < MaxWrites
    /\ LET f == IF stream = "stdout" THEN proc.stdoutWrite ELSE proc.stderrWrite
           through == HookRuns(f)
       IN proc' = [proc EXCEPT
                !.written = @ + 1,
                !.runs = [id \in ScriptIds |->
                            IF id \notin through THEN proc.runs[id]
                            ELSE IF stream = "stdout"
                                 THEN [proc.runs[id] EXCEPT !.stdout = @ + 1]
                                 ELSE [proc.runs[id] EXCEPT !.stderr = @ + 1]]]
    /\ UNCHANGED <<clockVars, pollerVars, lastCall, calls, search, pollers, cli, heap>>

ExecuteScriptStep == \E id \in ScriptIds : ExecuteScript(id)

TsxImportedStep == \E id \in ScriptIds, loaded \in BOOLEAN : TsxImported(id, loaded)

ScriptSettledStep == \E id \in ScriptIds, success \in BOOLEAN : ScriptSettled(id, success)

WriteStep == \E stream \in Streams : Write(stream)

----------------------------------------------------------------------------
(* Specifications *)

\* One poller invocation at a time, on a wall clock that may be adjusted.
Next ==
    \/ CallStep
    \/ PollerStep
    \/ Tick
    \/ AdjustStep

Spec == Init /\ [][Next]_vars

\* The same on a wall clock that is never adjusted.
MonoNext ==
    \/ CallStep
    \/ PollerStep
    \/ Tick

MonoSpec == Init /\ [][MonoNext]_vars

\* Time keeps passing and every pending await of the poller settles.
LiveSpec == MonoSpec /\ WF_vars(Tick) /\ WF_vars(PollerStep)

\* Direct calls of the four find* wrappers by two callers: a call and its
\* settlement are separate steps, and other calls come in between.
FindNext == FindStep

FindSpec == Init /\ [][FindNext]_vars

\* Searches through the wrappers and the native engine, on a screen that
\* may change while they are in flight.
EngineNext ==
    \/ ShowStep
    \/ SearchStep
    \/ SelfMatchStep
    \/ SearchSettleStep
    \/ SearchForget

EngineSpec == Init /\ [][EngineNext]_vars

\* Two callers whose waitFor / waitForGone invocations overlap.
ConcNext ==
    \/ ConcCallStep
    \/ ConcPollerStep
    \/ ConcTick

ConcSpec == Init /\ [][ConcNext]_vars

\* All six operations, in any order and overlapping: the screen changes at
\* any time, a caller searches while it or the other caller waits, and waits
\* while searches are in flight.
ApiNext ==
    \/ ApiShowStep
    \/ ApiSearchStep
    \/ SearchSettleStep
    \/ SearchForget
    \/ ApiWaitStep
    \/ ConcPollerStep
    \/ ConcTick

ApiSpec == Init /\ [][ApiNext]_vars

\* Calls of getMatchCenter and getMatchBounds.
HelperNext ==
    \/ GetMatchCenterStep
    \/ GetMatchBoundsStep

HelperSpec == Init /\ [][HelperNext]_vars

\* executeScript calls, which may overlap, and writes to the two streams.
ScriptNext ==
    \/ ExecuteScriptStep
    \/ TsxImportedStep
    \/ ScriptSettledStep
    \/ WriteStep

ScriptSpec == Init /\ [][ScriptNext]_vars

\* Commands of the bot CLI, which overlap.
CliNext ==
    \/ CallCommandStep
    \/ InvokeExportStep
    \/ CliSettleStep
    \/ CliExitStep

CliSpec == Init /\ [][CliNext]_vars

----------------------------------------------------------------------------
(* Properties *)

\* The matches a settled search handed to its caller.
Returned ==
    IF search.op \in {"none", "scene"} THEN {}
    ELSE IF search.out.kind = "throw" THEN {}
    ELSE IF search.op \in {"findOnScreen", "findInRegion"}
         THEN (IF Truthy(search.out.val) THEN {search.out.val} ELSE {})
    ELSE {search.out.val.s[i] : i \in 1..Len(search.out.val.s)}

\* The threshold the caller configured: config.confidence, 0.8 when absent.
Threshold ==
    IF ~Truthy(search.config) THEN DefaultConfidence
    ELSE IF ~Truthy(search.config.confidence) THEN DefaultConfidence
    ELSE search.config.confidence.n

\* The limit the caller configured: config.limit, 100 when absent.
Limit ==
    IF ~Truthy(search.config) THEN DefaultLimit
    ELSE IF ~Truthy(search.config.limit) THEN DefaultLimit
    ELSE search.config.limit.n

\* The region the caller passed does not lie on the screen.
InvalidRegion ==
    LET r == search.region
    IN \/ r[1] < 0 \/ r[2] < 0
       \/ r[3] <= 0 \/ r[4] <= 0
       \/ r[1] + r[3] > ScreenW \/ r[2] + r[4] > ScreenH

\* The configuration the caller passed is malformed once its defaults are in.
MalformedConfig ==
    LET given(name) == Truthy(search.config) /\ Truthy(search.config[name])
        multi == IF given("searchMultipleScales")
                 THEN search.config.searchMultipleScales.b ELSE TRUE
        steps == IF given("scaleSteps")
                 THEN search.config.scaleSteps.s ELSE DefaultScaleSteps
    IN \/ Threshold < 0 \/ Threshold > 100
       \/ Limit <= 0
       \/ multi /\ (steps = <<>> \/ \E i \in 1..Len(steps) : steps[i] <= 0)

RegionSearch == search.op \in {"findInRegion", "findAllInRegion"}

AnySearch ==
    search.op \in {"findOnScreen", "findAllOnScreen", "findInRegion", "findAllInRegion"}

\* searchMultipleScales and scaleSteps as the caller configured them, with
\* their defaults.
MultipleScales ==
    IF Truthy(search.config) /\ Truthy(search.config.searchMultipleScales)
    THEN search.config.searchMultipleScales.b ELSE TRUE

ScaleSteps ==
    IF Truthy(search.config) /\ Truthy(search.config.scaleSteps)
    THEN search.config.scaleSteps.s ELSE DefaultScaleSteps

\* The size of the haystack of the search on record.
HaystackW == IF RegionSearch THEN search.region[3] ELSE ScreenW
HaystackH == IF RegionSearch THEN search.region[4] ELSE ScreenH

\* n is d times scale (in hundredths) rounded to the nearest integer, at least 1.
RoundedAtLeastOne(n, d, scale) ==
    /\ n >= 1
    /\ \/ 100 * n - d * scale \in (-50)..50
       \/ n = 1 /\ d * scale < 50

CeilDiv(a, b) == (a + b - 1) \div b

Falsy(outcome) == outcome.kind = "ok" /\ ~Truthy(outcome.val)

\* w is the earliest firing time of one timer of ms milliseconds set at time
\* `set`: not before it was set and at most a millisecond early.
OneTimer(ms, set, w) == w >= set /\ w >= set + ms - 1 /\ w <= set + ms

\* C1: in waitFor, once findOnScreen has returned a match the next thing the
\* invocation does is resolve with exactly that match: no sleep and no further
\* findOnScreen call comes in between, and a match it resolved with is the one
\* the latest search produced.
C1_FoundReturnsAtOnce ==
    /\ [](pc = "done" /\ fn = "waitFor" /\ result.kind = "ok" /\ Truthy(result.val)
            => /\ lastNative.kind = "ok"
               /\ Truthy(lastNative.val)
               /\ result.val = fromMatchResultJs(lastNative.val))
    /\ [][fn = "waitFor" /\ pc = "search" /\ pc' # pc
            /\ lastNative'.kind = "ok" /\ Truthy(lastNative'.val)
            => pc' = "branch" /\ match' = fromMatchResultJs(lastNative'.val)]_vars
    /\ [][fn = "waitFor" /\ pc = "branch" /\ Truthy(match) /\ pc' # pc
            => pc' = "done" /\ result' = Ok(match) /\ searches' = searches]_vars

C1_Witness ==
    /\ pc = "done" /\ fn = "waitFor" /\ searches >= 2
    /\ result.kind = "ok" /\ Truthy(result.val)

\* C2: whenever waitFor resolves to null, the elapsed time Date.now() - startTime
\* is at least timeout at that moment.
C2_NullOnlyAfterDeadline ==
    [][fn = "waitFor" /\ pc # "done" /\ pc' = "done" /\ result' = Ok(NullV)
        => wall - startTime >= timeout]_vars

C2_Witness ==
    /\ pc = "done" /\ fn = "waitFor" /\ result = Ok(NullV)
    /\ timeout > 0 /\ searches >= 1

\* C3: whenever waitForGone resolves to false, at least one findOnScreen call was
\* made in that invocation and the most recent one returned a match.
C3_FalseMeansStillPresent ==
    pc = "done" /\ fn = "waitForGone" /\ result = Ok(BoolV(FALSE))
        => searches >= 1 /\ Truthy(match)

\* C4: waitFor never resolves to null without having called findOnScreen at
\* least once (the first search precedes the first look at the deadline).
C4_SearchBeforeDeadline ==
    pc = "done" /\ fn = "waitFor" /\ result = Ok(NullV) => searches >= 1

\* C5: in waitForGone, once findOnScreen has returned null the next thing the
\* invocation does is resolve to true, with no sleep and no further search; and
\* it resolves to true only when its latest findOnScreen call returned null.
C5_GoneReturnsAtOnce ==
    /\ [](pc = "done" /\ fn = "waitForGone" /\ result = Ok(BoolV(TRUE))
            => searches >= 1 /\ match = NullV /\ Falsy(lastNative))
    /\ [][fn = "waitForGone" /\ pc = "search" /\ pc' # pc /\ Falsy(lastNative')
            => pc' = "branch" /\ match' = NullV]_vars
    /\ [][fn = "waitForGone" /\ pc = "branch" /\ match = NullV /\ pc' # pc
            => pc' = "done" /\ result' = Ok(BoolV(TRUE)) /\ searches' = searches]_vars

C5_Witness ==
    /\ pc = "done" /\ fn = "waitForGone" /\ searches >= 2
    /\ result = Ok(BoolV(TRUE))

\* C6: when a findOnScreen call of waitFor or waitForGone throws, the invocation
\* rejects with that same error at once: no sleep and no further search follows,
\* and the invocation never settles with null, false or true instead.
C6_ErrorPropagates ==
    /\ [](pc = "done" /\ lastNative.kind = "throw" => result = lastNative)
    /\ [][pc = "search" /\ pc' # pc /\ lastNative'.kind = "throw"
            => /\ pc' = "done"
               /\ result' = Throw(lastNative'.err)
               /\ searches' = searches]_vars

C6_Witness ==
    /\ pc = "done" /\ searches >= 2
    /\ result = Throw("DecodeError")

\* C7: while time passes and every search and sleep completes, every waitFor
\* and waitForGone invocation eventually settles.
C7_EventuallySettles == (pc \in Active) ~> (pc = "done")

C7_Witness ==
    /\ pc = "done" /\ interval = 0 /\ timeout > 0 /\ searches >= 2
    /\ result \in {Ok(NullV), Ok(BoolV(FALSE))}

\* C8: the poller measures elapsed time on a clock that never goes back, so no
\* search is started once more than timeout of physical time has passed since
\* the invocation started, whatever the wall clock does.
C8_NoSearchPastRealDeadline ==
    [][pc = "check" /\ pc' = "search" => real - realStart <= timeout]_vars

\* C9: with interval > 0, timeout > 0, a clock that is never set back and
\* sleeps of at least interval (no timer fires early), one invocation makes
\* at most ceil(timeout / interval) findOnScreen calls.
C9_SearchCountBound ==
    pc # "idle" /\ interval > 0 /\ timeout > 0 /\ punctual
        => searches <= CeilDiv(timeout, interval)

C9_Witness ==
    /\ pc = "done" /\ interval > 0 /\ timeout > interval /\ punctual
    /\ searches = CeilDiv(timeout, interval)
    /\ result \in {Ok(NullV), Ok(BoolV(FALSE))}

\* C10: findOnScreen and findInRegion resolve to null exactly when the native
\* search reports no match and reject exactly when it throws (with its error);
\* findAllOnScreen and findAllInRegion reject exactly when it throws and
\* otherwise resolve to a list as long as the native one.
C10_NoMatchIsNotAnError ==
    /\ lastCall.op \in {"findOnScreen", "findInRegion"}
        => /\ lastCall.out = Ok(NullV) <=> Falsy(lastCall.native)
           /\ lastCall.out.kind = "throw" <=> lastCall.native.kind = "throw"
           /\ lastCall.native.kind = "throw" => lastCall.out = lastCall.native
    /\ lastCall.op \in {"findAllOnScreen", "findAllInRegion"}
        => /\ lastCall.out.kind = "throw" <=> lastCall.native.kind = "throw"
           /\ lastCall.native.kind = "throw" => lastCall.out = lastCall.native
           /\ lastCall.native.kind = "ok"
                => Len(lastCall.out.val.s) = Len(lastCall.native.val.s)

C10_Witness ==
    /\ lastCall.op = "findInRegion"
    /\ lastCall.native = Throw("CaptureError")
    /\ lastCall.out.kind = "throw"

\* C12: every MatchResult a search returns has a confidence of at least the
\* configured threshold (0.8 when the caller gave none).
C12_AtLeastThreshold ==
    \A m \in Returned : m.confidence >= Threshold

C12_Witness ==
    /\ search.op = "findAllOnScreen"
    /\ \E m \in Returned : m.confidence = Threshold /\ m.confidence < 100
    /\ \E m \in Returned : m.scale < DefaultConfidence

\* C13: the list findAllOnScreen or findAllInRegion returns is ordered by
\* confidence, highest first; of two matches with equal confidence the one
\* whose scale is closer to 1.0 comes first.
C13_RankedList ==
    search.op \in {"findAllOnScreen", "findAllInRegion"} /\ search.out.kind = "ok"
        => LET s == search.out.val.s
           IN \A i \in 1..Len(s), j \in 1..Len(s) :
                i < j => \/ s[i].confidence > s[j].confidence
                         \/ /\ s[i].confidence = s[j].confidence
                            /\ Abs(s[i].scale - 100) <= Abs(s[j].scale - 100)

C13_Witness ==
    /\ search.op = "findAllOnScreen" /\ search.out.kind = "ok"
    /\ LET s == search.out.val.s
       IN /\ \E i \in 1..Len(s), j \in 1..Len(s) :
                /\ i < j /\ s[i].confidence = s[j].confidence
                /\ Abs(s[i].scale - 100) < Abs(s[j].scale - 100)
          /\ \E i \in 1..Len(s), j \in 1..Len(s) :
                i < j /\ s[i].confidence > s[j].confidence

\* C14: the list findAllOnScreen or findAllInRegion returns is never longer
\* than config.limit (100 when the caller gave none).
C14_AtMostLimit ==
    search.op \in {"findAllOnScreen", "findAllInRegion"} /\ search.out.kind = "ok"
        => Len(search.out.val.s) <= Limit

\* A list cut to a limit of 2 that would have been longer with the default.
C14_Witness ==
    /\ search.op = "findAllInRegion" /\ search.out.kind = "ok"
    /\ Limit = 2 /\ Len(search.out.val.s) = 2
    /\ Len(nativeFindAll(search.screen, search.template.buffer, search.nativeRegion,
                         [search.nativeConfig EXCEPT !.limit = UndefinedV],
                         search.env).out.val.s) > 2

\* C15: the matches findInRegion and findAllInRegion return are in screen
\* coordinates: the offset of the region is added exactly once to the
\* position found inside the region, so that x lies in [rx, rx + rw] and y in
\* [ry, ry + rh], and the screen shows at that position what the match reports.
C15_AbsoluteCoordinates ==
    search.op \in {"findInRegion", "findAllInRegion"}
        => \A m \in Returned :
             LET rx == search.region[1]
                 ry == search.region[2]
                 rw == search.region[3]
                 rh == search.region[4]
             IN /\ rx <= m.x /\ m.x <= rx + rw
                /\ ry <= m.y /\ m.y <= ry + rh
                /\ m.x + m.width <= rx + rw
                /\ m.y + m.height <= ry + rh
                /\ score(capture(search.screen, 0, 0, ScreenW, ScreenH),
                         resize(search.template.buffer, m.width, m.height),
                         m.x, m.y) = m.confidence

C15_Witness ==
    /\ search.op = "findInRegion"
    /\ search.region[1] > 0 /\ search.region[2] > 0
    /\ \E m \in Returned : m.x > search.region[1]

C17_MalformedConfigIsValidationError ==
    AnySearch /\ MalformedConfig
        => search.out = Throw("ValidationError") /\ search.captures = 0

\* A configuration that is malformed only once its defaults are in.
C17_Witness ==
    /\ search.op = "findOnScreen"
    /\ Truthy(search.config)
    /\ ~Truthy(search.config.searchMultipleScales)
    /\ Truthy(search.config.scaleSteps) /\ search.config.scaleSteps.s = <<>>
    /\ search.out = Throw("ValidationError") /\ search.captures = 0

\* C18: overlapping invocations do not affect one another: a step of one
\* invocation leaves the other as it was, and what the invocation does in
\* that step follows from its own arguments, its own start time, the clock
\* and the result its own search received.
C18_InvocationsIndependent ==
    [][\A id \in Ids :
         pollers'[id] # pollers[id]
            => LET p == pollers[id]
                   q == pollers'[id]
               IN /\ \A other \in Ids \ {id} : pollers'[other] = pollers[other]
                  /\ p.pc \in Active
                        => /\ q.fn = p.fn /\ q.timeout = p.timeout
                           /\ q.interval = p.interval
                           /\ q.startTime = p.startTime
                  /\ p.pc = "idle" => q.pc = "check" /\ q.startTime = wall
                  /\ p.pc = "check"
                        => IF wall - p.startTime < p.timeout
                           THEN q.pc = "search" /\ q.result = NoOutcome
                           ELSE q.pc = "done" /\ q.result = Ok(timedOutValue(p.fn))
                  /\ p.pc = "search"
                        => \/ q.pc = "done" /\ q.result.kind = "throw"
                           \/ /\ q.pc = "branch" /\ q.result = NoOutcome
                              /\ q.match \in MatchResultJs \cup {NullV}
                  /\ p.pc = "branch"
                        => IF (p.fn = "waitFor") <=> Truthy(p.match)
                           THEN /\ q.pc = "done"
                                /\ q.result = Ok(IF p.fn = "waitFor" THEN p.match
                                                  ELSE BoolV(TRUE))
                           ELSE q.pc = "sleep" /\ OneTimer(p.interval, real, q.wake)
                  /\ p.pc = "sleep" => real >= p.wake /\ q.pc = "check"
                  /\ p.pc # "done"]_vars

\* Caller a has timed out while the later call of caller b, with another
\* timeout and interval, is asleep between two searches.
C18_Witness ==
    /\ pollers["a"].pc = "done"
    /\ pollers["a"].result = Ok(timedOutValue(pollers["a"].fn))
    /\ pollers["a"].iterations >= 1
    /\ pollers["b"].pc = "sleep"
    /\ pollers["b"].startTime > pollers["a"].startTime
    /\ pollers["b"].timeout # pollers["a"].timeout
    /\ pollers["b"].interval # pollers["a"].interval

\* The objects caller id holds are the template and the configuration of
\* the given pair.
Holds(id, given) == heap[id] = [template |-> given[1], config |-> given[2]]

SelfSearchUnchanged ==
    /\ AnySearch /\ search.captured # <<>>
    /\ search.capturedFrom = <<search.screen, search.env>>

\* C20 as stated: with a template made of exactly the bytes captured from a
\* region of the screen, and the screen unchanged, findOnScreen with
\* searchMultipleScales false and a threshold of at most 1.0 returns a match,
\* never null, whose x, y, width and height are those of the captured region,
\* with confidence 1.0 and scale 1.0.
C20_SelfMatchAtRegion ==
    SelfSearchUnchanged
        => /\ search.out.kind = "ok" /\ Truthy(search.out.val)
           /\ search.out.val.x = search.captured[1]
           /\ search.out.val.y = search.captured[2]
           /\ search.out.val.width = search.captured[3]
           /\ search.out.val.height = search.captured[4]
           /\ search.out.val.confidence = 100
           /\ search.out.val.scale = 100

\* C20 amended: such a search returns a match, never null, with confidence
\* 1.0, scale 1.0 and the width and height of the captured region, at a place
\* where the screen shows the very pixels of the captured region; that place
\* is the captured region itself when no other place shows the same pixels.
C20_SelfMatchSamePixels ==
    SelfSearchUnchanged
        => /\ search.out.kind = "ok" /\ Truthy(search.out.val)
           /\ LET m == search.out.val
                  w == search.captured[3]
                  h == search.captured[4]
                  shown(x, y) == capture(search.screen, x, y, w, h)
                  elsewhere ==
                      {pos \in Positions :
                          /\ pos[1] + w <= ScreenW /\ pos[2] + h <= ScreenH
                          /\ pos # <<search.captured[1], search.captured[2]>>
                          /\ shown(pos[1], pos[2]) = search.template.buffer}
              IN /\ m.width = w /\ m.height = h
                 /\ m.confidence = 100 /\ m.scale = 100
                 /\ m.x + w <= ScreenW /\ m.y + h <= ScreenH
                 /\ shown(m.x, m.y) = search.template.buffer
                 /\ elsewhere = {}
                      => m.x = search.captured[1] /\ m.y = search.captured[2]

\* A region away from the origin whose pixels show nowhere else is found
\* where it was captured.
C20_Witness ==
    /\ SelfSearchUnchanged
    /\ search.captured[1] > 0 /\ search.captured[2] > 0
    /\ search.captured[3] > 1
    /\ search.out.kind = "ok" /\ Truthy(search.out.val)
    /\ search.out.val.x = search.captured[1]
    /\ search.out.val.y = search.captured[2]
    /\ \A pos \in Positions :
          pos[1] + search.captured[3] <= ScreenW /\ pos[2] + search.captured[4] <= ScreenH
          /\ capture(search.screen, pos[1], pos[2], search.captured[3],
                     search.captured[4]) = search.template.buffer
            => pos = <<search.captured[1], search.captured[2]>>

\* C21: a search that gets to match searches exactly the scale 1.0 when
\* searchMultipleScales is false; otherwise it searches, in their order, the
\* entries of scaleSteps whose variant of the template (dimensions rounded to
\* the nearest integer, at least 1x1) is neither wider nor taller than the
\* haystack, and it skips the others without failing.
C21_ScaleSpace ==
    AnySearch /\ search.native.kind = "ok"
        => LET tpl == search.template.buffer
               vs == search.scales
               fitting ==
                   SelectSeq(ScaleSteps,
                             LAMBDA sc :
                                \E w \in 1..HaystackW, h \in 1..HaystackH :
                                    /\ RoundedAtLeastOne(w, tpl.w, sc)
                                    /\ RoundedAtLeastOne(h, tpl.h, sc))
           IN IF ~MultipleScales
              THEN vs = <<[scale |-> 100, width |-> tpl.w, height |-> tpl.h]>>
              ELSE /\ [i \in 1..Len(vs) |-> vs[i].scale] = fitting
                   /\ \A i \in 1..Len(vs) :
                        /\ RoundedAtLeastOne(vs[i].width, tpl.w, vs[i].scale)
                        /\ RoundedAtLeastOne(vs[i].height, tpl.h, vs[i].scale)
                        /\ vs[i].width <= HaystackW /\ vs[i].height <= HaystackH

\* A search in a region narrower than the template: the scale 1.0 is skipped,
\* the half-size variant is searched and found.
C21_Witness ==
    /\ search.op = "findAllInRegion" /\ search.out.kind = "ok"
    /\ MultipleScales /\ Len(ScaleSteps) = 2
    /\ search.template.buffer.w > HaystackW
    /\ Len(search.scales) = 1 /\ search.scales[1].scale = 50
    /\ search.scales[1].width = 1
    /\ search.out.val.s # <<>>

----------------------------------------------------------------------------
(* Properties of the bot CLI *)

\* The command was called and has not been dropped by its caller.
CliCalled(c) == c.pc # "idle"

\* The named export has no function as its value.
NotAFunction(c) == CliCalled(c) /\ bot(c.exportName).t # "function"

\* validateArgs was not called, no export was invoked, nothing was written.
NothingDone(c) ==
    /\ ~c.validated
    /\ c.invoked = 0
    /\ c.files = <<>>
    /\ c.stdout = <<>>

\* C23 as stated: callCommand / invokeExport with an export name whose value
\* is not a function rejects with an error containing "not a function", and
\* no argument validation, no invocation and no output write has taken place.
\* Violated: callCommand loads its arguments first, and a failure of that
\* (JSON.parse, readFile) is the error of the call.
C23_NotAFunctionRejects ==
    \A id \in CliIds :
        LET c == cli.cmds[id]
        IN NotAFunction(c) =>
            /\ NothingDone(c)
            /\ c.pc \in {"loadArgs", "done"}
            /\ c.pc = "done" => c.out = Throw("Export is not a function.")

\* C23 amended: with an export whose value is not a function the call
\* rejects without argument validation, invocation or output write, at the
\* latest when its arguments are loaded; the error is the "not a function"
\* one for invokeExport, and for callCommand whenever its arguments could be
\* loaded, else the error of loading them.
C23_NotAFunctionRejectsAfterLoad ==
    \A id \in CliIds :
        LET c == cli.cmds[id]
        IN NotAFunction(c) =>
            /\ NothingDone(c)
            /\ c.pc \in {"loadArgs", "done"}
            /\ c.pc = "loadArgs" => c.op = "callCommand"
            /\ c.pc = "done" =>
                /\ c.out.kind = "throw"
                /\ c.loaded.kind = "ok" => c.out = Throw("Export is not a function.")
                /\ c.loaded.kind = "throw" => c.op = "callCommand" /\ c.out = c.loaded

C23_Witness ==
    LET c == cli.cmds["p"]
    IN /\ c.pc = "done"
       /\ c.op = "callCommand"
       /\ c.exportName = "definitelyNotARealExport"
       /\ c.loaded.kind = "ok" /\ c.args # <<>>
       /\ c.options.validate # BoolV(FALSE)
       /\ c.out = Throw("Export is not a function.")

DryRun(c) == CliCalled(c) /\ Truthy(c.options.dryRun)

\* validateArgs finds fewer arguments than the export requires.
TooFewArguments(c) ==
    LET entry == apiSpec(c.exportName)
    IN /\ Truthy(entry)
       /\ entry.kind = "function"
       /\ Len(c.args) < entry.requiredCount

\* One object that is no array (a plain object, a Buffer) is given to a
\* function whose length (the parameters before the first one with a default
\* value) is more than one.
ObjectForLongFunction(c) ==
    /\ Len(c.args) = 1
    /\ c.args[1].t \in {"object", "buffer"}
    /\ bot(c.exportName).length > 1

\* C24: with dryRun set, callCommand / invokeExport never invokes the export
\* and never writes an output file (callCommand hands invokeExport no `out`);
\* it resolves only when the export is a function and the argument checks
\* pass, and then it has written the success report and nothing else, which
\* carries dryRun:true under jsonOutput; when it rejects it has written
\* nothing.
C24_DryRunOnlyReports ==
    \A id \in CliIds :
        LET c == cli.cmds[id]
        IN DryRun(c) =>
            /\ c.invoked = 0
            /\ c.files = <<>>
            /\ c.pc \in {"loadArgs", "validateArgs", "done"}
            /\ c.op = "callCommand" /\ c.loaded.kind = "ok" => c.forwarded.out = UndefinedV
            /\ c.pc # "done" => c.stdout = <<>>
            /\ c.pc = "done" /\ c.out.kind = "ok" =>
                /\ bot(c.exportName).t = "function"
                /\ c.forwarded.validate # BoolV(FALSE)
                        => ~TooFewArguments(c) /\ ~ObjectForLongFunction(c)
                /\ c.stdout =
                        <<IF Truthy(c.options.jsonOutput)
                          THEN "json:ok,exportName,args,dryRun:true"
                          ELSE "OK (dry-run)">>
            /\ c.pc = "done" /\ c.out.kind = "throw" => c.stdout = <<>>

C24_Witness ==
    LET c == cli.cmds["p"]
    IN /\ DryRun(c)
       /\ c.pc = "done"
       /\ c.op = "callCommand"
       /\ c.options.out # UndefinedV
       /\ Truthy(c.options.jsonOutput)
       /\ c.args = <<NumV(1), NumV(2)>>
       /\ c.out.kind = "ok"
       /\ cli.cmds["q"].pc = "done" /\ cli.cmds["q"].files # <<>>

----------------------------------------------------------------------------
(* The shape of the polling loop *)

\* The latest search did not decide the invocation.
Indecisive == IF fn = "waitFor" THEN match = NullV ELSE match # NullV

\* C25: within one waitFor / waitForGone invocation searches and sleeps
\* strictly alternate: after an indecisive findOnScreen call comes one sleep
\* of interval, and only then the deadline is looked at again (also after the
\* last search before the time-out); a findOnScreen call is started only from
\* the loop condition, so never while another one of the invocation is in flight.
C25_SearchesAndSleepsAlternate ==
    [][/\ pc = "branch" /\ Indecisive /\ pc' # pc
            => pc' = "sleep" /\ OneTimer(interval, real, wake') /\ searches' = searches
       /\ pc = "sleep" /\ pc' # pc
            => pc' = "check" /\ real >= wake /\ searches' = searches
       /\ pc' = "check" /\ pc # "check"
            => \/ pc = "sleep"
               \/ pc \in {"idle", "done"} /\ searches' = 0
       /\ pc' = "search" /\ pc # "search"
            => pc = "check" /\ searches' = Min2(searches + 1, MaxSearches)
       /\ searches' # searches /\ searches' # 0
            => pc = "check" /\ pc' = "search"]_vars

C25_Witness ==
    /\ pc = "done" /\ interval > 0 /\ searches >= 2
    /\ result \in {Ok(NullV), Ok(BoolV(FALSE))}
    /\ Indecisive
    /\ wake > realStart + interval
    /\ real >= wake

\* The elapsed time the loop condition would compare has reached the timeout.
PastDeadline == wall - startTime >= timeout

\* C26: the deadline is looked at only at the start of an iteration.  A
\* findOnScreen call that was started before the deadline and completes after
\* it still decides: waitFor resolves with the match and waitForGone with
\* true although the elapsed time has reached timeout; the time-out values
\* null / false are returned only from the loop condition.
C26_LateSearchStillDecides ==
    [][/\ pc = "search" /\ PastDeadline /\ pc' # pc /\ lastNative'.kind = "ok"
            => /\ pc' = "branch"
               /\ match' = IF Truthy(lastNative'.val)
                            THEN fromMatchResultJs(lastNative'.val)
                            ELSE NullV
       /\ pc = "branch" /\ PastDeadline /\ ~Indecisive /\ pc' # pc
            => /\ pc' = "done"
               /\ result' = Ok(IF fn = "waitFor" THEN match ELSE BoolV(TRUE))
       /\ pc \in Active /\ pc' = "done" /\ result' \in {Ok(NullV), Ok(BoolV(FALSE))}
            => pc = "check" /\ PastDeadline]_vars

C26_Witness ==
    /\ pc = "done" /\ fn = "waitFor" /\ adjusts = 0
    /\ timeout > 0
    /\ real - realStart > timeout
    /\ PastDeadline
    /\ result.kind = "ok" /\ Truthy(result.val)

----------------------------------------------------------------------------
(* The wrappers add nothing of their own *)

\* The six values of a match.
SixValues(m) == <<m.x, m.y, m.width, m.height, m.confidence, m.scale>>

\* C27: the TypeScript search functions are transparent over the native
\* search: the findAll* functions return a list as long as the native one and
\* in its order, each element with the same x, y, width, height, confidence
\* and scale; findOnScreen / findInRegion return these six values of the
\* native match; and x, y, width, height of a region search reach the native
\* function unchanged.
C27_WrappersTransparent ==
    /\ lastCall.op \in {"findAllOnScreen", "findAllInRegion"} /\ lastCall.native.kind = "ok"
        => /\ lastCall.out.kind = "ok"
           /\ Len(lastCall.out.val.s) = Len(lastCall.native.val.s)
           /\ \A i \in 1..Len(lastCall.native.val.s) :
                    SixValues(lastCall.out.val.s[i]) = SixValues(lastCall.native.val.s[i])
    /\ lastCall.op \in {"findOnScreen", "findInRegion"}
            /\ lastCall.native.kind = "ok" /\ Truthy(lastCall.native.val)
        => /\ lastCall.out.kind = "ok"
           /\ Truthy(lastCall.out.val)
           /\ SixValues(lastCall.out.val) = SixValues(lastCall.native.val)
    /\ lastCall.op \in {"findInRegion", "findAllInRegion"}
        => lastCall.nativeRegion = lastCall.region

C27_Witness ==
    /\ lastCall.op = "findAllInRegion"
    /\ lastCall.region[1] # lastCall.region[2]
    /\ lastCall.region[3] # lastCall.region[4]
    /\ lastCall.native.kind = "ok"
    /\ Len(lastCall.native.val.s) = 2
    /\ lastCall.native.val.s[1] # lastCall.native.val.s[2]
    /\ lastCall.native.val.s[1].x # lastCall.native.val.s[1].y

----------------------------------------------------------------------------
(* The centre of a match *)

\* C28: for every MatchResult with integer x, y and width >= 1, height >= 1
\* the point getMatchCenter returns is a pixel the match covers:
\* x <= center.x <= x + width - 1 and y <= center.y <= y + height - 1.
\* Violated: for a width (height) of one pixel the centre is x + 1 (y + 1),
\* the pixel right of (below) the match.
C28_CenterInsideMatch ==
    lastCall.op = "getMatchCenter"
        => /\ lastCall.match.x <= lastCall.out.x
           /\ lastCall.out.x <= lastCall.match.x + lastCall.match.width - 1
           /\ lastCall.match.y <= lastCall.out.y
           /\ lastCall.out.y <= lastCall.match.y + lastCall.match.height - 1

----------------------------------------------------------------------------
(* Argument checks of invokeExport *)

\* invokeExport was called with a function export, directly or by callCommand.
InInvokeExport(c) ==
    /\ CliCalled(c)
    /\ c.loaded.kind = "ok"
    /\ bot(c.exportName).t = "function"

\* One plain object is given to a function that declares several parameters.
ObjectForSeveral(c) ==
    /\ Len(c.args) = 1
    /\ c.args[1].t = "object"
    /\ bot(c.exportName).declared > 1

\* The checks of the arguments did not let the command through: it has not
\* called the export, and when it has settled it is rejected.
ChecksHeld(c) ==
    /\ c.invoked = 0
    /\ c.pc \in {"validateArgs", "done"}
    /\ c.pc = "done" => c.out.kind = "throw"

NotRejectedByChecks(c) ==
    /\ c.out # Throw("Expected at least n argument(s)")
    /\ c.out # Throw("Argument should be an array")

\* C29: in invokeExport the argument checks precede the invocation: with
\* validation enabled, when validateArgs rejects (fewer arguments than the
\* required parameters) or a single plain object is given to a function that
\* declares more than one parameter, invokeExport rejects and the export has
\* not been called; with validate = false neither check rejects.
\* Violated: the second check looks at fn.length, which stops counting at the
\* first parameter with a default value.
C29_ChecksPrecedeInvocation ==
    \A id \in CliIds :
        LET c == cli.cmds[id]
        IN InInvokeExport(c) =>
            /\ c.forwarded.validate # BoolV(FALSE)
                    /\ (TooFewArguments(c) \/ ObjectForSeveral(c))
                => ChecksHeld(c)
            /\ c.forwarded.validate = BoolV(FALSE) => NotRejectedByChecks(c)

\* C29 amended: with validation enabled, when validateArgs rejects or a
\* single object that is no array is given to a function whose length is
\* more than one, invokeExport rejects and the export has not been called;
\* an export that was called passed both checks; with validate = false
\* neither check rejects.
C29_ChecksPrecedeInvocationByLength ==
    \A id \in CliIds :
        LET c == cli.cmds[id]
        IN InInvokeExport(c) =>
            /\ c.forwarded.validate # BoolV(FALSE)
                    /\ (TooFewArguments(c) \/ ObjectForLongFunction(c))
                => ChecksHeld(c)
            /\ c.pc = "done" /\ c.out = Throw("Expected at least n argument(s)")
                => c.invoked = 0 /\ TooFewArguments(c)
            /\ c.pc = "done" /\ c.out = Throw("Argument should be an array")
                => c.invoked = 0 /\ ObjectForLongFunction(c)
            /\ c.invoked > 0 /\ c.forwarded.validate # BoolV(FALSE)
                => ~TooFewArguments(c) /\ ~ObjectForLongFunction(c)
            /\ c.forwarded.validate = BoolV(FALSE) => NotRejectedByChecks(c)

C29_Witness ==
    LET c == cli.cmds["p"]
    IN /\ c.pc = "done"
       /\ c.op = "invokeExport"
       /\ c.exportName = "findOnScreen"
       /\ c.options.validate = UndefinedV
       /\ c.options.dryRun = UndefinedV
       /\ c.args = <<ObjectV("x")>>
       /\ c.out = Throw("Argument should be an array")
       /\ c.invoked = 0

----------------------------------------------------------------------------
(* The output hooks of executeScript *)

NoScriptRunning == \A id \in ScriptIds : proc.runs[id].pc \in {"idle", "done"}

\* C30: whenever no executeScript call is in progress, process.stdout.write
\* and process.stderr.write are the functions installed before the first
\* call (here: these or bound copies of them, which behave the same), on the
\* success path, the failure path and for every interleaving of overlapping
\* calls.  Violated: of two overlapping calls the one that started first
\* leaves its capturing closure installed when it also finishes first.
C30_HooksRestored ==
    NoScriptRunning
        => /\ Target(proc.stdoutWrite) = StreamWrite("stdout")
           /\ Target(proc.stderrWrite) = StreamWrite("stderr")

====
